---------------------------- MODULE Spec2Model ----------------------------
(***************************************************************************)
(* Rule/session lookup and PDR validation of the UPF mock services.        *)
(*                                                                         *)
(* Two families of validation code live in the repository:                 *)
(*   - the gRPC family: the IMSI agent (Subscriber Directory), the rule    *)
(*     agent (Session Store, GetRule, ValidatePDR) and the client's        *)
(*     embedded validation server, whose getData resolves a subscriber     *)
(*     through GetIMSI and GetRule;                                        *)
(*   - the database family: package validation (database.go and its        *)
(*     handlers) and the standalone "Validation Server.go", whose getData  *)
(*     resolves a subscriber with one SQL join over imsi/fseid/pdr.        *)
(* Spec explores both: the client's server over generated agent data, and   *)
(* the two database servers over the seed rows or a generated pdr table.   *)
(***************************************************************************)
EXTENDS Integers, Sequences, FiniteSets, TLC

VARIABLES
    imsi,      \* imsiServer.imsi : subscriber key -> [Inter, Ims]
    session,   \* ruleServer.session : F-SEID -> Sessions
    db,        \* the relational store: tables imsi, fseid, pdr
    serving,   \* the servers that are listening
    req,       \* the request being answered (handler, fields, injected fault)
    resp,      \* the response written by the handler
    sets,      \* the two slices getData returned to the handler
    reads,     \* store reads performed while answering the request
    log,       \* what earlier requests were answered, as their callers saw it
    proc,      \* positions of the processes: agent start-up, client menu, reads
    pfcp       \* the PFCP agent: its pfcpserver and the PutRequest handlers

vars == <<imsi, session, db, serving, req, resp, sets, reads, log, proc, pfcp>>

----------------------------------------------------------------------------
(* Bounds of the explored data.                                            *)

\* longest pdr_id slice of a generated session
MaxPdrs == 1
\* number of rows of the generated pdr table
MaxRows == 2

\* PDR identifiers that generated stores may hold
PdrIds == {"pdr1", "pdr2"}
\* rule identifiers a request may carry ("" = field missing, pdr9 = never stored)
ReqPdrIds == {"", "pdr1", "pdr2", "pdr9"}
\* subscriber keys a request may carry (IMSI9 is in no store)
ReqImsis == {"", "IMSI1", "IMSI9"}
\* classes a request may carry
ReqDnns == {"", "internet", "ims", "voice"}
\* dnn values a pdr row may store (the column is a free VARCHAR)
RowDnns == {"internet", "ims", "voice"}

----------------------------------------------------------------------------
(* Generic helpers.                                                        *)

Range(s) == {s[i] : i \in 1..Len(s)}

\* contains: linear scan of a slice
contains(slice, item) == \E i \in 1..Len(slice) : slice[i] = item

\* all sequences over S of length at most n
SeqsUpTo(S, n) == UNION {[1..k -> S] : k \in 0..n}

----------------------------------------------------------------------------
(* Values shared by all handlers.                                          *)

\* a response with every field at its zero value
NoResp ==
    [code |-> 0, body |-> "none", status |-> "", error |-> "", message |-> "",
     imsi |-> "", pdr |-> "", dnn |-> "", foundIn |-> "",
     internetPdrs |-> <<>>, imsPdrs |-> <<>>,
     grpc |-> "", valid |-> FALSE, reply |-> <<>>,
     display |-> [found |-> "", foundIn |-> "", errMsg |-> ""]]

NoReads == [dir |-> 0, sess |-> 0, db |-> 0]
NoSets == [internet |-> <<>>, ims |-> <<>>]
NoReq ==
    [handler |-> "none", imsi |-> "", pdr_id |-> "", dnn |-> "", fsied |-> "",
     fault |-> "none", malformed |-> FALSE]

\* nothing answered yet, and no history being kept
NoLog == [track |-> "none", deleted |-> {}, resolved |-> {}, undone |-> {}]

\* a store read in flight (read = "none": no read), and whether the store
\* is never going to answer it
Call(read, hung) == [read |-> read, hung |-> hung]
NoCall == Call("none", FALSE)

\* the client's menu loop before any command: serverRunning := false, the
\* global validationServer is nil (0), nothing listens on localhost:8081
\* (bound = 0) and no goroutine is about to call router.Run
MenuIdle ==
    [serverRunning |-> FALSE, validationServer |-> 0, bound |-> 0,
     binding |-> {}, exited |-> FALSE]

\* every agent has finished its start-up and serves, the client sits in its
\* menu with its validation server started, no store read is in flight, and
\* no start-up of a database validation server is being followed
Running ==
    [rule |-> "Serve",
     menu |-> [MenuIdle EXCEPT !.serverRunning = TRUE, !.validationServer = 1,
                               !.bound = 1],
     call |-> NoCall,
     boot |-> [variant |-> "none", at |-> "Serve", starts |-> 0,
               seeded |-> FALSE]]

\* the PFCP agent before StartPFCPAgent has run: no pfcpserver, no handler
NoPfcp ==
    [variant |-> "none", count |-> 0, flowData |-> <<>>, h |-> <<>>,
     fatal |-> FALSE]

\* what a gRPC call returns beside its reply: nil ("OK"), the NotFound status
\* of the agents, or any other error of a failed or timed-out call ("Error")
OK == "OK"
NotFound == "NotFound"
CallError == "Error"

\* HTTP status codes (net/http)
StatusOK == 200
StatusBadRequest == 400
StatusNotFound == 404
StatusInternalServerError == 500

----------------------------------------------------------------------------
(* The IMSI agent (Subscriber Directory) and the rule agent (Session       *)
(* Store).                                                                 *)

\* StartIMSIAgent: the sample directory
SeedImsi ==
    [k \in {"IMSI1", "IMSI2", "IMSI3"} |->
        CASE k = "IMSI1" -> [Inter |-> "fseid1", Ims |-> "fseid2"]
          [] k = "IMSI2" -> [Inter |-> "fseid3", Ims |-> "fseid4"]
          [] k = "IMSI3" -> [Inter |-> "fseid5", Ims |-> "fseid6"]]

\* a Sessions value: the pdr_id slice of F-SEID f with its FAR, QER and URR
Sessions(f, n, pdrs) ==
    [pdr |-> [pdr_id |-> pdrs, fsied |-> f],
     far |-> [far_id |-> "far" \o n, fsied |-> f],
     qer |-> [qer_id |-> "qer" \o n, fsied |-> f],
     urr |-> [urr_id |-> "urr" \o n, fsied |-> f]]

\* StartRuleAgent: the sample sessions
SeedSession ==
    [f \in {"fseid1", "fseid2"} |->
        IF f = "fseid1" THEN Sessions("fseid1", "1", <<"pdr1", "pdr2">>)
        ELSE Sessions("fseid2", "2", <<"pdr3", "pdr4">>)]

\* imsiServer.GetIMSI
GetIMSI(key) ==
    IF key \notin DOMAIN imsi
    THEN [code |-> NotFound, Imsi |-> <<>>]
    ELSE [code |-> OK,
          Imsi |-> <<[Internet |-> imsi[key].Inter, IMS |-> imsi[key].Ims]>>]

\* a faulty GetRule: a session without PDR ids is reported as missing
GetRule_EmptyIsMissing(fsied) ==
    IF fsied \notin DOMAIN session \/ session[fsied].pdr.pdr_id = <<>>
    THEN [code |-> NotFound, Session |-> <<>>]
    ELSE LET sessionInfo == session[fsied]
         IN  [code |-> OK,
              Session |-> <<[Pdr |-> [PdrId |-> sessionInfo.pdr.pdr_id,
                                      Fsied |-> sessionInfo.pdr.fsied],
                             Far |-> [FarId |-> sessionInfo.far.far_id,
                                      Fsied |-> sessionInfo.far.fsied],
                             Qer |-> [QerId |-> sessionInfo.qer.qer_id,
                                      Fsied |-> sessionInfo.qer.fsied],
                             Urr |-> [UrrId |-> sessionInfo.urr.urr_id,
                                      Fsied |-> sessionInfo.urr.fsied]]>>]

\* ruleServer.GetRule: NotFound for a missing key, else a RuleReply built
\* field by field from the stored Sessions value
GetRule(fsied) ==
    IF fsied \notin DOMAIN session
    THEN [code |-> NotFound, Session |-> <<>>]
    ELSE LET sessionInfo == session[fsied]
         IN  [code |-> OK,
              Session |-> <<[Pdr |-> [PdrId |-> sessionInfo.pdr.pdr_id,
                                      Fsied |-> sessionInfo.pdr.fsied],
                             Far |-> [FarId |-> sessionInfo.far.far_id,
                                      Fsied |-> sessionInfo.far.fsied],
                             Qer |-> [QerId |-> sessionInfo.qer.qer_id,
                                      Fsied |-> sessionInfo.qer.fsied],
                             Urr |-> [UrrId |-> sessionInfo.urr.urr_id,
                                      Fsied |-> sessionInfo.urr.fsied]]>>]

\* ruleServer.ValidatePDR
ValidatePDR(r) ==
    IF r.imsi = "" \/ r.pdr_id = "" \/ r.dnn = ""
    THEN [valid |-> FALSE, message |-> "IMSI, PDR ID, and DNN are required fields",
          scanned |-> 0]
    ELSE LET found == \E f \in DOMAIN session :
                          contains(session[f].pdr.pdr_id, r.pdr_id)
         IN  IF ~found
             THEN [valid |-> FALSE, message |-> "PDR not found for the given IMSI",
                   scanned |-> 1]
             ELSE [valid |-> TRUE, message |-> "PDR validation successful",
                   scanned |-> 1]

----------------------------------------------------------------------------
(* The client's embedded validation server (gRPC-backed getData).          *)

\* store failures a request can meet: a failed dial, a failed or timed-out RPC
Faults ==
    {"none", "dialImsi", "rpcImsi", "dialRule", "ruleInter", "ruleIms", "ruleBoth"}

\* one GetRule call as the client sees it: the reply, or an error code
CallGetRule(fsied, fails) ==
    IF fails THEN [code |-> CallError, Session |-> <<>>] ELSE GetRule(fsied)

\* the pdr_id slice taken from a GetRule reply (nil on error)
PdrsOf(rule) ==
    IF rule.code = OK /\ rule.Session # <<>> THEN rule.Session[1].Pdr.PdrId
    ELSE <<>>

\* a faulty getData: one failed GetRule call empties both slices
ruleReads_AllOrNothing(interFseid, imsFseid, fault) ==
    LET interRule == CallGetRule(interFseid, fault \in {"ruleInter", "ruleBoth"})
        imsRule == CallGetRule(imsFseid, fault \in {"ruleIms", "ruleBoth"})
        failed == (interFseid # "" /\ interRule.code # OK)
                  \/ (imsFseid # "" /\ imsRule.code # OK)
    IN  [internet |-> IF interFseid # "" /\ ~failed THEN PdrsOf(interRule) ELSE <<>>,
         ims |-> IF imsFseid # "" /\ ~failed THEN PdrsOf(imsRule) ELSE <<>>]

\* the two GetRule calls of getData: one per non-empty F-SEID, each slice
\* set only when its own call succeeds
ruleReads(interFseid, imsFseid, fault) ==
    [internet |->
        IF interFseid # ""
        THEN PdrsOf(CallGetRule(interFseid, fault \in {"ruleInter", "ruleBoth"}))
        ELSE <<>>,
     ims |->
        IF imsFseid # ""
        THEN PdrsOf(CallGetRule(imsFseid, fault \in {"ruleIms", "ruleBoth"}))
        ELSE <<>>]

\* a faulty getData: a failed GetIMSI call is tried once more
getDataRpc_Retries(key, fault) ==
    IF fault = "dialImsi"
    THEN [internet |-> <<>>, ims |-> <<>>, reads |-> NoReads]
    ELSE
    LET imsiResp == IF fault = "rpcImsi" THEN [code |-> CallError, Imsi |-> <<>>]
                    ELSE GetIMSI(key)
        oneDir == [NoReads EXCEPT !.dir = IF imsiResp.code # OK THEN 2 ELSE 1]
    IN  IF imsiResp.code # OK
        THEN [internet |-> <<>>, ims |-> <<>>, reads |-> oneDir]
        ELSE IF Len(imsiResp.Imsi) = 0
        THEN [internet |-> <<>>, ims |-> <<>>, reads |-> oneDir]
        ELSE IF fault = "dialRule"
        THEN [internet |-> <<>>, ims |-> <<>>, reads |-> oneDir]
        ELSE
        LET data == imsiResp.Imsi[1]
            interFseid == data.Internet
            imsFseid == data.IMS
            pdrs == ruleReads(interFseid, imsFseid, fault)
            n == (IF interFseid # "" THEN 1 ELSE 0) + (IF imsFseid # "" THEN 1 ELSE 0)
        IN  [internet |-> pdrs.internet, ims |-> pdrs.ims,
             reads |-> [oneDir EXCEPT !.sess = n]]

\* getData of the client: GetIMSI, then one GetRule per non-empty F-SEID
getDataRpc(key, fault) ==
    IF fault = "dialImsi"
    THEN [internet |-> <<>>, ims |-> <<>>, reads |-> NoReads]
    ELSE
    LET imsiResp == IF fault = "rpcImsi" THEN [code |-> CallError, Imsi |-> <<>>]
                    ELSE GetIMSI(key)
        oneDir == [NoReads EXCEPT !.dir = 1]
    IN  IF imsiResp.code # OK
        THEN [internet |-> <<>>, ims |-> <<>>, reads |-> oneDir]
        ELSE IF Len(imsiResp.Imsi) = 0
        THEN [internet |-> <<>>, ims |-> <<>>, reads |-> oneDir]
        ELSE IF fault = "dialRule"
        THEN [internet |-> <<>>, ims |-> <<>>, reads |-> oneDir]
        ELSE
        LET data == imsiResp.Imsi[1]
            interFseid == data.Internet
            imsFseid == data.IMS
            pdrs == ruleReads(interFseid, imsFseid, fault)
            n == (IF interFseid # "" THEN 1 ELSE 0) + (IF imsFseid # "" THEN 1 ELSE 0)
        IN  [internet |-> pdrs.internet, ims |-> pdrs.ims,
             reads |-> [oneDir EXCEPT !.sess = n]]

\* the POST /validate handler registered by startValidationServer
clientPostValidate(r) ==
    IF r.malformed
    THEN [resp |-> [NoResp EXCEPT !.code = StatusBadRequest, !.body = "H",
                                  !.error = "Invalid JSON format"],
          sets |-> NoSets, reads |-> NoReads]
    ELSE
    LET d == getDataRpc(r.imsi, r.fault)
        pdrFoundInInternet == contains(d.internet, r.pdr_id)
        pdrFoundInIms == contains(d.ims, r.pdr_id)
        correct == [NoResp EXCEPT !.code = StatusOK, !.body = "H",
                                  !.status = "Correct Results",
                                  !.message = "Validation successful"]
        incorrect == [NoResp EXCEPT !.code = StatusBadRequest, !.body = "H",
                                    !.status = "Incorrect Results",
                                    !.message = "Validation Un-successful"]
        out ==
            IF pdrFoundInInternet /\ r.dnn = "internet"
            THEN [correct EXCEPT !.display =
                      [found |-> "correct", foundIn |-> "internet", errMsg |-> ""]]
            ELSE IF pdrFoundInIms /\ r.dnn = "ims"
            THEN [correct EXCEPT !.display =
                      [found |-> "correct", foundIn |-> "ims", errMsg |-> ""]]
            ELSE IF pdrFoundInInternet \/ pdrFoundInIms
            THEN [incorrect EXCEPT !.display =
                      [found |-> "incorrect",
                       foundIn |-> IF pdrFoundInInternet THEN "internet" ELSE "ims",
                       errMsg |-> "PDR exists but DNN mismatch"]]
            ELSE [incorrect EXCEPT !.display =
                      [found |-> "incorrect", foundIn |-> "",
                       errMsg |-> "PDR not found"]]
    IN  [resp |-> out, sets |-> [internet |-> d.internet, ims |-> d.ims],
         reads |-> d.reads]

----------------------------------------------------------------------------
(* The relational store (schema.sql) and the SQL the handlers run.         *)

\* imsi and fseid rows of the generated stores; a row's id is its index
DbImsi == <<"IMSI1", "IMSI2">>
DbFseid ==
    <<[imsi_id |-> 1, fseid_value |-> "fseid1"],
      [imsi_id |-> 1, fseid_value |-> "fseid2"],
      [imsi_id |-> 2, fseid_value |-> "fseid3"]>>

\* keys of the generated pdr rows, distinct as UNIQUE (fseid_id, pdr_id) asks
RowKeys ==
    <<[fseid_id |-> 1, pdr_id |-> "pdr1"],
      [fseid_id |-> 2, pdr_id |-> "pdr1"],
      [fseid_id |-> 2, pdr_id |-> "pdr2"],
      [fseid_id |-> 3, pdr_id |-> "pdr1"],
      [fseid_id |-> 1, pdr_id |-> "pdr2"]>>

\* seedDatabase of Validation Server.go: three subscribers, one PDR per session
SeedDb ==
    [imsi |-> <<"IMSI1", "IMSI2", "IMSI3">>,
     fseid |-> <<[imsi_id |-> 1, fseid_value |-> "fseid1"],
                 [imsi_id |-> 1, fseid_value |-> "fseid2"],
                 [imsi_id |-> 2, fseid_value |-> "fseid3"],
                 [imsi_id |-> 2, fseid_value |-> "fseid4"],
                 [imsi_id |-> 3, fseid_value |-> "fseid5"],
                 [imsi_id |-> 3, fseid_value |-> "fseid6"]>>,
     pdr |-> <<[fseid_id |-> 1, pdr_id |-> "pdr1", dnn |-> "internet", status |-> "active"],
               [fseid_id |-> 2, pdr_id |-> "pdr2", dnn |-> "ims", status |-> "active"],
               [fseid_id |-> 3, pdr_id |-> "pdr3", dnn |-> "internet", status |-> "active"],
               [fseid_id |-> 4, pdr_id |-> "pdr4", dnn |-> "ims", status |-> "active"],
               [fseid_id |-> 5, pdr_id |-> "pdr5", dnn |-> "internet", status |-> "active"],
               [fseid_id |-> 6, pdr_id |-> "pdr6", dnn |-> "ims", status |-> "active"]>>]

\* the tables as schema.sql creates them, before any seeding
EmptyDb == [imsi |-> <<>>, fseid |-> <<>>, pdr |-> <<>>]

\* imsi_number of the subscriber that owns pdr row p (the two JOINs)
OwnerOf(p) == db.imsi[db.fseid[p.fseid_id].imsi_id]

\* a faulty query: the status filter is missing
RECURSIVE SelectActive_AnyStatus(_, _)
SelectActive_AnyStatus(number, i) ==
    IF i > Len(db.pdr) THEN <<>>
    ELSE LET p == db.pdr[i]
         IN  (IF OwnerOf(p) = number
              THEN <<[pdr_id |-> p.pdr_id, dnn |-> p.dnn]>> ELSE <<>>)
             \o SelectActive_AnyStatus(number, i + 1)

\* a faulty query: the imsi_number filter is missing
RECURSIVE SelectActive_AnySubscriber(_, _)
SelectActive_AnySubscriber(number, i) ==
    IF i > Len(db.pdr) THEN <<>>
    ELSE LET p == db.pdr[i]
         IN  (IF p.status = "active"
              THEN <<[pdr_id |-> p.pdr_id, dnn |-> p.dnn]>> ELSE <<>>)
             \o SelectActive_AnySubscriber(number, i + 1)

\* SELECT p.pdr_id, p.dnn FROM imsi JOIN fseid JOIN pdr
\*   WHERE i.imsi_number = ? AND p.status = 'active'   (rows i..end)
RECURSIVE SelectActive(_, _)
SelectActive(number, i) ==
    IF i > Len(db.pdr) THEN <<>>
    ELSE LET p == db.pdr[i]
         IN  (IF OwnerOf(p) = number /\ p.status = "active"
              THEN <<[pdr_id |-> p.pdr_id, dnn |-> p.dnn]>> ELSE <<>>)
             \o SelectActive(number, i + 1)

\* SELECT COUNT(*) FROM pdr WHERE pdr_id = ? AND dnn = ?
CountPdr(pdrID, dnn) ==
    Cardinality({i \in 1..Len(db.pdr) :
                    db.pdr[i].pdr_id = pdrID /\ db.pdr[i].dnn = dnn})

\* UPDATE pdr SET status = ? WHERE pdr_id = ? AND dnn = ?
UpdateStatus(pdrID, dnn, status) ==
    [db EXCEPT !.pdr =
        [i \in 1..Len(db.pdr) |->
            IF db.pdr[i].pdr_id = pdrID /\ db.pdr[i].dnn = dnn
            THEN [db.pdr[i] EXCEPT !.status = status]
            ELSE db.pdr[i]]]

\* store failures of the database handlers
DbFaults == {"none", "queryErr", "execErr"}

----------------------------------------------------------------------------
(* Package validation: database.go and its handlers.                       *)

\* the rows.Next() loop of database.go: "ims" rows to imsPdrs, all others
\* to internetPdrs
RECURSIVE classifyDb(_)
classifyDb(rows) ==
    IF rows = <<>> THEN NoSets
    ELSE LET rest == classifyDb(Tail(rows))
             r == Head(rows)
         IN  IF r.dnn = "ims"
             THEN [rest EXCEPT !.ims = <<r.pdr_id>> \o @]
             ELSE [rest EXCEPT !.internet = <<r.pdr_id>> \o @]

\* getData of database.go
getDataDb(number, fault) ==
    IF fault = "queryErr"
    THEN [internet |-> <<>>, ims |-> <<>>, reads |-> [NoReads EXCEPT !.db = 1]]
    ELSE LET c == classifyDb(SelectActive(number, 1))
         IN  [internet |-> c.internet, ims |-> c.ims,
              reads |-> [NoReads EXCEPT !.db = 1]]

\* a faulty processValidation: only the internet slice is searched
processValidation_InternetOnly(r) ==
    IF r.imsi = "" \/ r.pdr_id = "" \/ r.dnn = ""
    THEN [resp |-> [NoResp EXCEPT !.code = StatusBadRequest, !.body = "ErrorResponse",
                        !.error = "missing_parameters",
                        !.message = "imsi, rules.pdr_id, and rules.dnn are required"],
          sets |-> NoSets, reads |-> NoReads]
    ELSE
    LET d == getDataDb(r.imsi, r.fault)
        found == contains(d.internet, r.pdr_id)
        out ==
            IF found
            THEN [NoResp EXCEPT !.code = StatusOK, !.body = "ValidationResponse",
                      !.status = "success", !.message = "PDR found",
                      !.imsi = r.imsi, !.pdr = r.pdr_id, !.dnn = r.dnn,
                      !.foundIn = "internet"]
            ELSE [NoResp EXCEPT !.code = StatusNotFound, !.body = "ValidationResponse",
                      !.status = "not_found",
                      !.message = "PDR not found for the given IMSI",
                      !.imsi = r.imsi, !.pdr = r.pdr_id]
    IN  [resp |-> out, sets |-> [internet |-> d.internet, ims |-> d.ims],
         reads |-> d.reads]

\* processValidation of package validation
processValidation(r) ==
    IF r.imsi = "" \/ r.pdr_id = "" \/ r.dnn = ""
    THEN [resp |-> [NoResp EXCEPT !.code = StatusBadRequest, !.body = "ErrorResponse",
                        !.error = "missing_parameters",
                        !.message = "imsi, rules.pdr_id, and rules.dnn are required"],
          sets |-> NoSets, reads |-> NoReads]
    ELSE
    LET d == getDataDb(r.imsi, r.fault)
        inInternet == contains(d.internet, r.pdr_id)
        found == inInternet \/ contains(d.ims, r.pdr_id)
        foundIn == IF inInternet THEN "internet" ELSE "ims"
        out ==
            IF found
            THEN [NoResp EXCEPT !.code = StatusOK, !.body = "ValidationResponse",
                      !.status = "success", !.message = "PDR found",
                      !.imsi = r.imsi, !.pdr = r.pdr_id, !.dnn = r.dnn,
                      !.foundIn = foundIn]
            ELSE [NoResp EXCEPT !.code = StatusNotFound, !.body = "ValidationResponse",
                      !.status = "not_found",
                      !.message = "PDR not found for the given IMSI",
                      !.imsi = r.imsi, !.pdr = r.pdr_id]
    IN  [resp |-> out, sets |-> [internet |-> d.internet, ims |-> d.ims],
         reads |-> d.reads]

\* the reply to a body BindJSON cannot parse
invalidRequest ==
    [resp |-> [NoResp EXCEPT !.code = StatusBadRequest, !.body = "ErrorResponse",
                   !.error = "invalid_request"],
     sets |-> NoSets, reads |-> NoReads]

\* getValidation of package validation
getValidation(r) ==
    IF r.imsi = ""
    THEN [resp |-> [NoResp EXCEPT !.code = StatusBadRequest, !.body = "ErrorResponse",
                        !.error = "missing_parameter",
                        !.message = "IMSI parameter is required"],
          sets |-> NoSets, reads |-> NoReads]
    ELSE LET d == getDataDb(r.imsi, r.fault)
         IN  [resp |-> [NoResp EXCEPT !.code = StatusOK, !.body = "ValidationResponse",
                            !.status = "success", !.imsi = r.imsi,
                            !.internetPdrs = d.internet, !.imsPdrs = d.ims],
              sets |-> [internet |-> d.internet, ims |-> d.ims],
              reads |-> d.reads]

\* postValidation of package validation
postValidation(r) ==
    IF r.malformed THEN invalidRequest ELSE processValidation(r)

\* putValidation of package validation
putValidation(r) ==
    IF r.malformed THEN invalidRequest ELSE processValidation(r)

\* deleteValidation of package validation: answers success, deletes nothing
deleteValidation(r) ==
    IF r.imsi = "" \/ r.pdr_id = ""
    THEN [resp |-> [NoResp EXCEPT !.code = StatusBadRequest, !.body = "ErrorResponse",
                        !.error = "missing_parameters",
                        !.message = "Both imsi and pdr_id parameters are required"],
          sets |-> NoSets, reads |-> NoReads]
    ELSE [resp |-> [NoResp EXCEPT !.code = StatusOK, !.body = "ValidationResponse",
                        !.status = "success", !.message = "PDR deleted successfully",
                        !.imsi = r.imsi, !.pdr = r.pdr_id],
          sets |-> NoSets, reads |-> NoReads]

----------------------------------------------------------------------------
(* The standalone validation server ("Validation Server.go").              *)

\* its rows.Next() loop: "internet" rows to internetPdrs, "ims" rows to
\* imsPdrs, any other dnn dropped
RECURSIVE classifyVs(_)
classifyVs(rows) ==
    IF rows = <<>> THEN NoSets
    ELSE LET rest == classifyVs(Tail(rows))
             r == Head(rows)
         IN  IF r.dnn = "internet"
             THEN [rest EXCEPT !.internet = <<r.pdr_id>> \o @]
             ELSE IF r.dnn = "ims"
             THEN [rest EXCEPT !.ims = <<r.pdr_id>> \o @]
             ELSE rest

\* getData of Validation Server.go
getDataVs(number, fault) ==
    IF fault = "queryErr"
    THEN [internet |-> <<>>, ims |-> <<>>, reads |-> [NoReads EXCEPT !.db = 1]]
    ELSE LET c == classifyVs(SelectActive(number, 1))
         IN  [internet |-> c.internet, ims |-> c.ims,
              reads |-> [NoReads EXCEPT !.db = 1]]

\* processValidation of Validation Server.go
processValidationVs(r) ==
    LET d == getDataVs(r.imsi, r.fault)
        none == Len(d.internet) = 0 /\ Len(d.ims) = 0
        hit == (r.dnn = "internet" /\ contains(d.internet, r.pdr_id))
               \/ (r.dnn = "ims" /\ contains(d.ims, r.pdr_id))
        found == IF ~none /\ hit THEN "Found" ELSE "Not Found"
        foundIn == IF ~none /\ hit THEN r.dnn ELSE ""
        errMsg == IF none THEN "No PDRs found for the given IMSI" ELSE ""
        shown == [found |-> found, foundIn |-> foundIn, errMsg |-> errMsg]
        out ==
            IF errMsg # ""
            THEN [NoResp EXCEPT !.code = StatusNotFound, !.body = "ErrorResponse",
                      !.error = "Validation Failed", !.message = errMsg,
                      !.display = shown]
            ELSE [NoResp EXCEPT !.code = StatusOK, !.body = "ValidationResponse",
                      !.status = found, !.imsi = r.imsi, !.pdr = r.pdr_id,
                      !.dnn = r.dnn, !.foundIn = foundIn,
                      !.internetPdrs = d.internet, !.imsPdrs = d.ims,
                      !.display = shown]
    IN  [resp |-> out, sets |-> [internet |-> d.internet, ims |-> d.ims],
         reads |-> d.reads]

\* the reply to a body ShouldBindJSON cannot parse
invalidBody ==
    [resp |-> [NoResp EXCEPT !.code = StatusBadRequest, !.body = "ErrorResponse",
                   !.error = "Invalid request body"],
     sets |-> NoSets, reads |-> NoReads]

\* getValidation of Validation Server.go: the request comes from the query
getValidationVs(r) == processValidationVs(r)

\* postValidation of Validation Server.go
postValidationVs(r) ==
    IF r.malformed THEN invalidBody ELSE processValidationVs(r)

\* the reply of PUT and DELETE when the COUNT(*) query fails or counts 0
pdrNotFound ==
    [NoResp EXCEPT !.code = StatusNotFound, !.body = "ErrorResponse",
         !.error = "PDR not found",
         !.message = "The specified PDR does not exist"]

\* putValidation of Validation Server.go: sets the matching rows active
putValidationVs(r) ==
    IF r.malformed
    THEN [resp |-> invalidBody.resp, sets |-> NoSets, reads |-> NoReads, db |-> db]
    ELSE IF r.fault = "queryErr" \/ CountPdr(r.pdr_id, r.dnn) = 0
    THEN [resp |-> pdrNotFound, sets |-> NoSets,
          reads |-> [NoReads EXCEPT !.db = 1], db |-> db]
    ELSE IF r.fault = "execErr"
    THEN [resp |-> [NoResp EXCEPT !.code = StatusInternalServerError,
                        !.body = "ErrorResponse", !.error = "Failed to update PDR"],
          sets |-> NoSets, reads |-> [NoReads EXCEPT !.db = 1], db |-> db]
    ELSE [resp |-> [NoResp EXCEPT !.code = StatusOK, !.body = "H",
                        !.status = "success", !.message = "PDR updated successfully",
                        !.pdr = r.pdr_id, !.dnn = r.dnn],
          sets |-> NoSets, reads |-> [NoReads EXCEPT !.db = 1],
          db |-> UpdateStatus(r.pdr_id, r.dnn, "active")]

\* deleteValidation of Validation Server.go: soft delete, status 'inactive'
deleteValidationVs(r) ==
    IF r.pdr_id = "" \/ r.dnn = ""
    THEN [resp |-> [NoResp EXCEPT !.code = StatusBadRequest, !.body = "ErrorResponse",
                        !.error = "Missing parameters",
                        !.message = "Both pdr_id and dnn parameters are required"],
          sets |-> NoSets, reads |-> NoReads, db |-> db]
    ELSE IF r.fault = "queryErr" \/ CountPdr(r.pdr_id, r.dnn) = 0
    THEN [resp |-> pdrNotFound, sets |-> NoSets,
          reads |-> [NoReads EXCEPT !.db = 1], db |-> db]
    ELSE IF r.fault = "execErr"
    THEN [resp |-> [NoResp EXCEPT !.code = StatusInternalServerError,
                        !.body = "ErrorResponse", !.error = "Failed to delete PDR"],
          sets |-> NoSets, reads |-> [NoReads EXCEPT !.db = 1], db |-> db]
    ELSE [resp |-> [NoResp EXCEPT !.code = StatusOK, !.body = "H",
                        !.status = "success", !.message = "PDR deleted successfully",
                        !.pdr = r.pdr_id, !.dnn = r.dnn],
          sets |-> NoSets, reads |-> [NoReads EXCEPT !.db = 1],
          db |-> UpdateStatus(r.pdr_id, r.dnn, "inactive")]

----------------------------------------------------------------------------
(* Seed data and requests.                                                 *)

\* pdr_id slices of a generated session
PdrLists == SeqsUpTo(PdrIds, MaxPdrs)

\* directory entries of the generated subscriber IMSI1: both classes, one
\* class only, no class, and an ims key the Session Store does not hold
DirChoices ==
    {[Inter |-> "fseid1", Ims |-> "fseid2"],
     [Inter |-> "fseid1", Ims |-> ""],
     [Inter |-> "", Ims |-> "fseid2"],
     [Inter |-> "", Ims |-> ""],
     [Inter |-> "fseid1", Ims |-> "fseid9"]}

GenImsi(d) == [k \in {"IMSI1"} |-> d]

GenSession(l1, l2) ==
    [f \in {"fseid1", "fseid2"} |->
        IF f = "fseid1" THEN Sessions("fseid1", "1", l1)
        ELSE Sessions("fseid2", "2", l2)]

\* what a generated pdr row slot holds: nothing, or a dnn and a status
RowChoices == {<<"absent", "">>} \cup (RowDnns \X {"active", "inactive"})

\* the pdr table made of the filled slots i..MaxRows of choice c
RECURSIVE GenRows(_, _)
GenRows(c, i) ==
    IF i > MaxRows THEN <<>>
    ELSE (IF c[i][1] = "absent" THEN <<>>
          ELSE <<[fseid_id |-> RowKeys[i].fseid_id, pdr_id |-> RowKeys[i].pdr_id,
                  dnn |-> c[i][1], status |-> c[i][2]]>>)
         \o GenRows(c, i + 1)

GenDb(c) == [imsi |-> DbImsi, fseid |-> DbFseid, pdr |-> GenRows(c, 1)]

\* bodies and queries of validation requests
ValidateReqs(faults) ==
    {[NoReq EXCEPT !.imsi = i, !.pdr_id = p, !.dnn = d, !.fault = f] :
        i \in ReqImsis, p \in ReqPdrIds, d \in ReqDnns, f \in faults}

\* a body that is not valid JSON
Malformed == [NoReq EXCEPT !.malformed = TRUE]

\* session keys a GetRule request may carry (fseid9 is in no store)
ReqFseids == {"", "fseid1", "fseid2", "fseid9"}

----------------------------------------------------------------------------
(* Initial states.                                                         *)

Idle == req = NoReq /\ resp = NoResp /\ sets = NoSets /\ reads = NoReads

\* Two deployments.  The client's: the agents hold a generated directory and
\* generated sessions, the client has started its validation server, and the
\* database servers are down (InitDB failed, the tables are empty).  The
\* server's: the agents hold their sample maps and the database servers run
\* over the seed rows or a generated pdr table.
Init ==
    /\ \/ /\ \E d \in DirChoices, l1 \in PdrLists, l2 \in PdrLists :
                  imsi = GenImsi(d) /\ session = GenSession(l1, l2)
          /\ db = EmptyDb
          /\ serving = {"agents", "client"}
          /\ proc = Running
       \/ /\ imsi = SeedImsi /\ session = SeedSession
          /\ \/ db = SeedDb
             \/ \E c \in [1..MaxRows -> RowChoices] : db = GenDb(c)
          /\ serving = {"agents", "validation", "vs"}
          /\ proc = [Running EXCEPT !.menu = MenuIdle]
    /\ Idle
    /\ log = NoLog
    /\ pfcp = NoPfcp

----------------------------------------------------------------------------
(* One action per handler.                                                 *)

\* The stores of the gRPC family never change and every database handler
\* runs one statement per store access, so a request is answered in one step;
\* the response is then delivered (Return) before the next request is taken.

\* a handler of server srv takes request r and answers it with out
Answer(srv, name, r, out) ==
    /\ srv \in serving
    /\ req = NoReq
    /\ req' = [r EXCEPT !.handler = name]
    /\ resp' = out.resp
    /\ sets' = out.sets
    /\ reads' = out.reads

\* POST /validate of the client's validation server
ClientPOST ==
    \E r \in ValidateReqs(Faults) \cup {Malformed} :
        /\ Answer("client", "client.POST", r, clientPostValidate(r))
        /\ UNCHANGED <<imsi, session, db, serving, log, proc, pfcp>>

\* the GetIMSI RPC of the IMSI agent
RpcGetIMSI ==
    \E k \in ReqImsis :
        LET reply == GetIMSI(k)
        IN  /\ "agents" \in serving
            /\ req = NoReq
            /\ req' = [NoReq EXCEPT !.handler = "GetIMSI", !.imsi = k]
            /\ resp' = [NoResp EXCEPT !.grpc = reply.code, !.body = "IMSIReply",
                                      !.reply = reply.Imsi]
            /\ sets' = NoSets
            /\ reads' = [NoReads EXCEPT !.dir = 1]
            /\ UNCHANGED <<imsi, session, db, serving, log, proc, pfcp>>

\* a faulty GetRule: looking up a missing F-SEID leaves an empty entry behind
RpcGetRule_Inserts ==
    \E f \in ReqFseids :
        LET reply == GetRule(f)
        IN  /\ "agents" \in serving
            /\ req = NoReq
            /\ req' = [NoReq EXCEPT !.handler = "GetRule", !.fsied = f]
            /\ resp' = [NoResp EXCEPT !.grpc = reply.code, !.body = "RuleReply",
                                      !.reply = reply.Session]
            /\ sets' = NoSets
            /\ reads' = [NoReads EXCEPT !.sess = 1]
            /\ session' = IF f \in DOMAIN session THEN session
                          ELSE [g \in DOMAIN session \cup {f} |->
                                   IF g = f THEN Sessions(f, "", <<>>)
                                   ELSE session[g]]
            /\ UNCHANGED <<imsi, db, serving, log, proc, pfcp>>

\* the GetRule RPC of the rule agent
RpcGetRule ==
    \E f \in ReqFseids :
        LET reply == GetRule(f)
        IN  /\ "agents" \in serving
            /\ req = NoReq
            /\ req' = [NoReq EXCEPT !.handler = "GetRule", !.fsied = f]
            /\ resp' = [NoResp EXCEPT !.grpc = reply.code, !.body = "RuleReply",
                                      !.reply = reply.Session]
            /\ sets' = NoSets
            /\ reads' = [NoReads EXCEPT !.sess = 1]
            /\ UNCHANGED <<imsi, session, db, serving, log, proc, pfcp>>

\* the ValidatePDR RPC of the rule agent
RpcValidatePDR ==
    \E r \in ValidateReqs({"none"}) :
        LET reply == ValidatePDR(r)
        IN  /\ "agents" \in serving
            /\ req = NoReq
            /\ req' = [r EXCEPT !.handler = "ValidatePDR"]
            /\ resp' = [NoResp EXCEPT !.grpc = OK, !.body = "ValidatePDRReply",
                                      !.valid = reply.valid,
                                      !.message = reply.message]
            /\ sets' = NoSets
            /\ reads' = [NoReads EXCEPT !.sess = reply.scanned]
            /\ UNCHANGED <<imsi, session, db, serving, log, proc, pfcp>>

\* GET /validate of package validation
GET_validate ==
    \E r \in ValidateReqs({"none", "queryErr"}) :
        /\ r.pdr_id = "" /\ r.dnn = ""
        /\ Answer("validation", "GET", r, getValidation(r))
        /\ UNCHANGED <<imsi, session, db, serving, log, proc, pfcp>>

\* POST /validate of package validation
POST_validate ==
    \E r \in ValidateReqs({"none", "queryErr"}) \cup {Malformed} :
        /\ Answer("validation", "POST", r, postValidation(r))
        /\ UNCHANGED <<imsi, session, db, serving, log, proc, pfcp>>

\* PUT /validate of package validation
PUT_validate ==
    \E r \in ValidateReqs({"none"}) \cup {Malformed} :
        /\ Answer("validation", "PUT", r, putValidation(r))
        /\ UNCHANGED <<imsi, session, db, serving, log, proc, pfcp>>

\* DELETE /validate of package validation
DELETE_validate ==
    \E r \in ValidateReqs({"none"}) :
        /\ r.dnn = ""
        /\ Answer("validation", "DELETE", r, deleteValidation(r))
        /\ UNCHANGED <<imsi, session, db, serving, log, proc, pfcp>>

\* GET /validate of Validation Server.go
VsGET ==
    \E r \in ValidateReqs({"none"}) :
        /\ Answer("vs", "vs.GET", r, getValidationVs(r))
        /\ UNCHANGED <<imsi, session, db, serving, log, proc, pfcp>>

\* POST /validate of Validation Server.go
VsPOST ==
    \E r \in ValidateReqs({"none", "queryErr"}) \cup {Malformed} :
        /\ Answer("vs", "vs.POST", r, postValidationVs(r))
        /\ UNCHANGED <<imsi, session, db, serving, log, proc, pfcp>>

\* PUT /validate of Validation Server.go
VsPUT ==
    \E r \in ValidateReqs(DbFaults) \cup {Malformed} :
        /\ r.imsi = ""
        /\ Answer("vs", "vs.PUT", r, putValidationVs(r))
        /\ db' = putValidationVs(r).db
        /\ UNCHANGED <<imsi, session, serving, log, proc, pfcp>>

\* DELETE /validate of Validation Server.go
VsDELETE ==
    \E r \in ValidateReqs(DbFaults) :
        /\ r.imsi = ""
        /\ Answer("vs", "vs.DELETE", r, deleteValidationVs(r))
        /\ db' = deleteValidationVs(r).db
        /\ UNCHANGED <<imsi, session, serving, log, proc, pfcp>>

\* the handler returns: the response is with the caller, the server is idle
Return ==
    /\ req # NoReq
    /\ req' = NoReq /\ resp' = NoResp /\ sets' = NoSets /\ reads' = NoReads
    /\ UNCHANGED <<imsi, session, db, serving, log, proc, pfcp>>

Next ==
    \/ ClientPOST \/ RpcGetIMSI \/ RpcGetRule \/ RpcValidatePDR
    \/ GET_validate \/ POST_validate \/ PUT_validate \/ DELETE_validate
    \/ VsGET \/ VsPOST \/ VsPUT \/ VsDELETE
    \/ Return

Spec == Init /\ [][Next]_vars

----------------------------------------------------------------------------
(* Vocabulary of the claims.                                               *)

\* the handlers that answer a validation request
ValidationHandlers == {"client.POST", "POST", "vs.GET", "vs.POST", "ValidatePDR"}

\* the request in hand is a validation request whose body could be parsed
Validating == req.handler \in ValidationHandlers /\ ~req.malformed

\* all three fields of the request are present
Complete == req.imsi # "" /\ req.pdr_id # "" /\ req.dnn # ""

\* the classified set the handler resolved for class dnn
SetFor(dnn) ==
    IF dnn = "internet" THEN sets.internet
    ELSE IF dnn = "ims" THEN sets.ims
    ELSE <<>>

\* the class other than dnn
OtherClass(dnn) == IF dnn = "internet" THEN "ims" ELSE "internet"

\* the response reports the Correct (success) outcome
IsCorrect ==
    \/ req.handler = "client.POST" /\ resp.status = "Correct Results"
    \/ req.handler = "POST" /\ resp.status = "success"
    \/ req.handler \in {"vs.GET", "vs.POST"} /\ resp.status = "Found"
    \/ req.handler = "ValidatePDR" /\ resp.valid

\* the response reports the MissingField outcome
IsMissingField ==
    \/ resp.code = StatusBadRequest /\ resp.error = "missing_parameters"
    \/ req.handler = "ValidatePDR" /\ ~resp.valid
       /\ resp.message = "IMSI, PDR ID, and DNN are required fields"

\* the response is the one the handler gives when the rule is in neither set
IsNotFound ==
    \/ req.handler = "client.POST" /\ resp.code = StatusBadRequest
       /\ resp.display.errMsg = "PDR not found"
    \/ req.handler = "POST" /\ resp.code = StatusNotFound
       /\ resp.status = "not_found"
    \/ req.handler \in {"vs.GET", "vs.POST"}
       /\ \/ resp.code = StatusNotFound /\ resp.error = "Validation Failed"
          \/ resp.code = StatusOK /\ resp.status = "Not Found"

\* what the caller receives: the response without the server's terminal table
Wire(r) == [r EXCEPT !.display = NoResp.display]

\* a store read of the request failed (connection, RPC, timeout or query)
StoreFailed == req.fault # "none"

\* the backing store could not be reached: the directory or the rule service
\* failed, the query failed, or both session reads failed
StoreUnreachable ==
    \/ req.fault \in {"dialImsi", "rpcImsi", "dialRule", "queryErr"}
    \/ req.fault = "ruleBoth" /\ reads.sess = 2

----------------------------------------------------------------------------
(* C1: for every request with a subscriber, a rule id and a class, the     *)
(* outcome is Correct exactly when the rule id is in the set resolved for  *)
(* the claimed class.  processValidation of package validation answers     *)
(* success for a rule id found in either set.                              *)
C1_CorrectIffInClaimedSet ==
    (Validating /\ Complete /\ req.handler # "ValidatePDR")
        => (IsCorrect <=> contains(SetFor(req.dnn), req.pdr_id))

(* C2: a request whose rule id is in the other class's set and a request   *)
(* whose rule id is in neither set get responses the caller can tell       *)
(* apart.  The client's handler sends the same body for both.              *)
C2_MismatchDistinctFromNotFound ==
    (/\ req.handler = "client.POST" /\ ~req.malformed /\ Complete
     /\ ~contains(SetFor(req.dnn), req.pdr_id)
     /\ contains(SetFor(OtherClass(req.dnn)), req.pdr_id))
        => \A q \in ReqPdrIds \ {""} :
               (~contains(sets.internet, q) /\ ~contains(sets.ims, q))
                   => Wire(clientPostValidate([req EXCEPT !.pdr_id = q]).resp)
                          # Wire(resp)

(* C3: a validation request with an empty subscriber key, rule id or class *)
(* ends in MissingField and reads no store.  The client's handler and      *)
(* Validation Server.go resolve the subscriber without checking.           *)
C3_MissingFieldNoRead ==
    (Validating /\ ~Complete) => (IsMissingField /\ reads = NoReads)

(* C4: a store failure is never answered with the NotFound outcome.        *)
(* getData returns two nil slices on a failure and the handler answers     *)
(* not found.                                                              *)
C4_StoreFailureNotNotFound ==
    (Validating /\ Complete /\ StoreUnreachable) => ~IsNotFound

(* C5: when exactly one of the subscriber's two session reads fails (the   *)
(* session is not in the store, or the call fails or times out) and the    *)
(* other succeeds, getData returns the successful class's pdr ids, an      *)
(* empty slice for the failed class, and the outcome is decided on them.   *)
InterReadFails ==
    req.fault \in {"ruleInter", "ruleBoth"}
    \/ imsi[req.imsi].Inter \notin DOMAIN session

ImsReadFails ==
    req.fault \in {"ruleIms", "ruleBoth"}
    \/ imsi[req.imsi].Ims \notin DOMAIN session

OneSessionReadFails ==
    /\ req.handler = "client.POST" /\ ~req.malformed
    /\ req.fault \notin {"dialImsi", "rpcImsi", "dialRule"}
    /\ req.imsi \in DOMAIN imsi
    /\ imsi[req.imsi].Inter # "" /\ imsi[req.imsi].Ims # ""
    /\ InterReadFails # ImsReadFails

C5_PartialFailureDegrades ==
    OneSessionReadFails =>
        /\ sets.internet = IF InterReadFails THEN <<>>
                           ELSE session[imsi[req.imsi].Inter].pdr.pdr_id
        /\ sets.ims = IF ImsReadFails THEN <<>>
                      ELSE session[imsi[req.imsi].Ims].pdr.pdr_id
        /\ IsCorrect <=> contains(SetFor(req.dnn), req.pdr_id)

\* the ims read fails and a rule of the internet session still validates
C5_Witness ==
    /\ OneSessionReadFails /\ ImsReadFails
    /\ sets.internet # <<>> /\ sets.ims = <<>>
    /\ IsCorrect

(* C6: for a subscriber key the directory does not know, or one with no    *)
(* provisioned session, getData returns two empty slices and the request   *)
(* is answered not found with no pdr list.                                 *)
UnknownSubscriber ==
    IF req.handler = "client.POST"
    THEN req.imsi \notin DOMAIN imsi
         \/ (imsi[req.imsi].Inter = "" /\ imsi[req.imsi].Ims = "")
    ELSE \A f \in 1..Len(db.fseid) : db.imsi[db.fseid[f].imsi_id] # req.imsi

C6_UnknownSubscriberEmptySets ==
    (/\ Validating /\ Complete /\ req.handler # "ValidatePDR"
     /\ ~StoreFailed /\ UnknownSubscriber)
        => /\ sets = NoSets
           /\ IsNotFound
           /\ resp.internetPdrs = <<>> /\ resp.imsPdrs = <<>>

\* an unknown subscriber was validated against a database that holds active rows
C6_Witness ==
    /\ req.handler = "vs.POST" /\ Complete /\ ~StoreFailed /\ UnknownSubscriber
    /\ \E i \in 1..Len(db.pdr) : db.pdr[i].status = "active"
    /\ resp.code = StatusNotFound

(* C7: the internet set is exactly the pdr ids of the subscriber's         *)
(* internet session and the ims set exactly those of its ims session, also *)
(* when a stored dnn is neither "internet" nor "ims".  getData of          *)
(* database.go puts every active row that is not "ims" in the internet     *)
(* slice.                                                                  *)
ActivePdrIds(number, dnn) ==
    {db.pdr[i].pdr_id : i \in {j \in 1..Len(db.pdr) :
        /\ OwnerOf(db.pdr[j]) = number
        /\ db.pdr[j].status = "active"
        /\ db.pdr[j].dnn = dnn}}

C7_SetsEqualSessionPdrs ==
    (req.handler \in {"GET", "POST"} /\ ~req.malformed /\ ~StoreFailed
     /\ reads.db = 1)
        => /\ Range(sets.internet) = ActivePdrIds(req.imsi, "internet")
           /\ Range(sets.ims) = ActivePdrIds(req.imsi, "ims")

(* C8: only active rules are visible.  Whatever DELETE and PUT requests    *)
(* came before, every pdr id in a classified set, and every pdr id that    *)
(* validates, has an active row of the subscriber; and a row goes from     *)
(* inactive to active only in a PUT.                                       *)
HasActiveRow(number, pdrID) ==
    \E i \in 1..Len(db.pdr) :
        /\ OwnerOf(db.pdr[i]) = number
        /\ db.pdr[i].pdr_id = pdrID
        /\ db.pdr[i].status = "active"

OnlyActiveVisible ==
    req.handler \in {"GET", "POST", "PUT", "vs.GET", "vs.POST"}
        => /\ \A id \in Range(sets.internet) \cup Range(sets.ims) :
                  HasActiveRow(req.imsi, id)
           /\ IsCorrect => HasActiveRow(req.imsi, req.pdr_id)

ReactivatedOnlyByPut ==
    \A i \in 1..Len(db.pdr) :
        (db.pdr[i].status = "inactive" /\ db'.pdr[i].status = "active")
            => req'.handler = "vs.PUT"

C8_OnlyActiveVisible == []OnlyActiveVisible /\ [][ReactivatedOnlyByPut]_vars

\* the requested rule has an inactive row only, while another rule of the
\* subscriber is listed
C8_Witness ==
    /\ req.handler = "vs.POST" /\ Complete
    /\ \E i \in 1..Len(db.pdr) :
          /\ OwnerOf(db.pdr[i]) = req.imsi
          /\ db.pdr[i].pdr_id = req.pdr_id
          /\ db.pdr[i].dnn = req.dnn
          /\ db.pdr[i].status = "inactive"
    /\ resp.code = StatusOK /\ resp.status = "Not Found"

(* C9: every validation response other than MissingField carries the       *)
(* classified sets that were resolved.  The client's handler and           *)
(* processValidation of package validation send no pdr list.               *)
C9_ResponseCarriesSets ==
    (Validating /\ Complete /\ req.handler # "ValidatePDR")
        => (resp.internetPdrs = sets.internet /\ resp.imsPdrs = sets.ims)

(* C10: answering a validation request (GET or POST /validate,             *)
(* ValidatePDR) or a GetRule or GetIMSI lookup leaves the directory, the   *)
(* session store and the pdr rows with their status unchanged.             *)
ReadOnlyHandlers ==
    {"GET", "POST", "client.POST", "vs.GET", "vs.POST",
     "ValidatePDR", "GetRule", "GetIMSI"}

C10_LookupsChangeNoStore ==
    [][req'.handler \in ReadOnlyHandlers
          => (imsi' = imsi /\ session' = session /\ db' = db)]_vars

\* a GetRule lookup of a session key the store does not hold was answered
C10_Witness ==
    /\ req.handler = "GetRule" /\ req.fsied \notin DOMAIN session
    /\ resp.grpc = NotFound

(* C12: POST /validate of package validation answers status "success",   *)
(* message "PDR found" exactly when the requested pdr_id is among the       *)
(* active PDRs resolved for the IMSI; found_in then names a class whose     *)
(* list in the GET /validate answer for that IMSI holds the pdr_id;         *)
(* otherwise the answer is not_found.                                       *)
GetListsFor(number) ==
    getValidation([NoReq EXCEPT !.imsi = number]).resp

PostFound ==
    resp.code = StatusOK /\ resp.status = "success" /\ resp.message = "PDR found"

SessionOf(number, dnn) ==
    IF number \notin DOMAIN imsi THEN ""
    ELSE IF dnn = "internet" THEN imsi[number].Inter
    ELSE IF dnn = "ims" THEN imsi[number].Ims
    ELSE ""

C13_ValidOnlyForOwnSession ==
    (req.handler = "ValidatePDR" /\ resp.valid)
        => /\ SessionOf(req.imsi, req.dnn) \in DOMAIN session
           /\ contains(session[SessionOf(req.imsi, req.dnn)].pdr.pdr_id, req.pdr_id)

(* C14: GetRule answers NotFound exactly when the session map has no entry  *)
(* for the requested F-SEID; for an existing entry, also one with no PDR    *)
(* id, it answers without error and the reply holds the stored PDR id       *)
(* sequence and the stored FAR, QER and URR ids.                            *)
C14_GetRuleNotFoundIffAbsent ==
    req.handler = "GetRule"
        => /\ (resp.grpc = NotFound) <=> (req.fsied \notin DOMAIN session)
           /\ req.fsied \in DOMAIN session
                 => /\ resp.grpc = OK
                    /\ Len(resp.reply) = 1
                    /\ resp.reply[1].Pdr.PdrId = session[req.fsied].pdr.pdr_id
                    /\ resp.reply[1].Far.FarId = session[req.fsied].far.far_id
                    /\ resp.reply[1].Qer.QerId = session[req.fsied].qer.qer_id
                    /\ resp.reply[1].Urr.UrrId = session[req.fsied].urr.urr_id

\* a session without PDR ids was looked up and answered with its bundle
C14_Witness ==
    /\ req.handler = "GetRule" /\ req.fsied \in DOMAIN session
    /\ session[req.fsied].pdr.pdr_id = <<>>
    /\ resp.grpc = OK /\ resp.reply[1].Far.FarId = "far1"

(* C16: answering one validation request, the client's getData calls        *)
(* GetIMSI at most once and GetRule at most twice: once per F-SEID the      *)
(* directory entry holds, never for an absent class, and no call is         *)
(* repeated after it failed.                                                *)
PresentKeys(number) ==
    IF number \notin DOMAIN imsi THEN 0
    ELSE (IF imsi[number].Inter # "" THEN 1 ELSE 0)
         + (IF imsi[number].Ims # "" THEN 1 ELSE 0)

C16_ReadsBounded ==
    req.handler = "client.POST"
        => /\ reads.dir <= 1
           /\ reads.sess <= 2
           /\ reads.sess <= PresentKeys(req.imsi)
           /\ reads.db = 0

\* the directory read failed and nothing was read after it
C16_Witness ==
    /\ req.handler = "client.POST" /\ req.fault = "rpcImsi"
    /\ reads.dir = 1 /\ reads.sess = 0

----------------------------------------------------------------------------
(* Sequences of requests.  SpecSeq runs the three validation servers over   *)
(* the sample data and keeps, in log, what earlier requests were answered:  *)
(*   deleted  - the last DELETE that answered "PDR deleted successfully"    *)
(*              and was not followed by a PUT that updated the same rows;   *)
(*   resolved - the first resolution of a subscriber since the last write;  *)
(*   undone   - a DELETE that updated rows, the lists every subscriber had  *)
(*              before it, and whether a PUT of the same rule followed.     *)
(* One kind of history is kept per behaviour (log.track).                   *)

SeqImsis == {"IMSI1", "IMSI2"}
SeqPdrIds == {"pdr1", "pdr2"}
SeqDnns == {"internet", "ims"}
Tracks == {"deleted", "resolved", "undone"}

\* the server a handler belongs to
ServerOf(name) ==
    IF name \in {"GET", "POST", "PUT", "DELETE"} THEN "validation"
    ELSE IF name = "client.POST" THEN "client"
    ELSE "vs"

\* the handlers that call getData
Resolving == {"GET", "POST", "PUT", "vs.GET", "vs.POST", "client.POST"}

\* the lists GET /validate of server srv holds for every subscriber
ListsOf(srv) ==
    [i \in SeqImsis |->
        IF srv = "vs"
        THEN [internet |-> getDataVs(i, "none").internet,
              ims |-> getDataVs(i, "none").ims]
        ELSE [internet |-> getDataDb(i, "none").internet,
              ims |-> getDataDb(i, "none").ims]]

\* the handler answered that it deleted / updated the PDR
DeleteAnswered(name, out) ==
    /\ name \in {"DELETE", "vs.DELETE"}
    /\ out.resp.code = StatusOK
    /\ out.resp.message = "PDR deleted successfully"

PutAnswered(name, out) ==
    /\ name \in {"PUT", "vs.PUT"}
    /\ out.resp.code = StatusOK

\* log after handler name answered request r with out
Logged(name, r, out) ==
    LET srv == ServerOf(name)
        key == [srv |-> srv, imsi |-> r.imsi, pdr_id |-> r.pdr_id, dnn |-> r.dnn]
    IN
    IF log.track = "deleted"
    THEN [log EXCEPT !.deleted =
             IF DeleteAnswered(name, out) THEN {key}
             ELSE IF name = "vs.PUT" /\ PutAnswered(name, out)
             THEN {d \in @ : ~(d.srv = "vs" /\ d.pdr_id = r.pdr_id /\ d.dnn = r.dnn)}
             ELSE @]
    ELSE IF log.track = "resolved"
    THEN [log EXCEPT !.resolved =
             IF name \in {"vs.PUT", "vs.DELETE"} /\ out.resp.code = StatusOK
             THEN {}
             ELSE IF name \in Resolving /\ ~r.malformed /\ r.fault = "none"
                     /\ out.reads # NoReads
             THEN IF @ = {}
                  THEN {[srv |-> srv, imsi |-> r.imsi, sets |-> out.sets,
                         again |-> FALSE]}
                  ELSE {IF q.srv = srv /\ q.imsi = r.imsi
                        THEN [q EXCEPT !.again = TRUE] ELSE q : q \in @}
             ELSE @]
    ELSE IF log.track = "undone"
    THEN [log EXCEPT !.undone =
             IF DeleteAnswered(name, out)
             THEN {[srv |-> srv, pdr_id |-> r.pdr_id, dnn |-> r.dnn,
                    before |-> ListsOf(srv), restored |-> FALSE]}
             ELSE IF PutAnswered(name, out)
             THEN {[u EXCEPT !.restored = TRUE] :
                      u \in {v \in @ : /\ v.srv = srv /\ ~v.restored
                                       /\ v.pdr_id = r.pdr_id
                                       /\ v.dnn \in {"", r.dnn}}}
             ELSE @]
    ELSE log

\* server srv answers request r in handler name with out, leaving the pdr
\* table as rows
Served(srv, name, r, out, rows) ==
    /\ Answer(srv, name, r, out)
    /\ db' = rows
    /\ log' = Logged(name, r, out)
    /\ UNCHANGED <<imsi, session, serving, proc, pfcp>>

SeqReqs(imsis, pdrs, dnns, faults) ==
    {[NoReq EXCEPT !.imsi = i, !.pdr_id = p, !.dnn = d, !.fault = f] :
        i \in imsis, p \in pdrs, d \in dnns, f \in faults}

SeqGET ==
    \E r \in SeqReqs(SeqImsis, {""}, {""}, {"none", "queryErr"}) :
        Served("validation", "GET", r, getValidation(r), db)

SeqPOST ==
    \E r \in SeqReqs(SeqImsis, SeqPdrIds, SeqDnns, {"none"}) :
        Served("validation", "POST", r, postValidation(r), db)

SeqPUT ==
    \E r \in SeqReqs(SeqImsis, SeqPdrIds, SeqDnns, {"none"}) :
        Served("validation", "PUT", r, putValidation(r), db)

SeqDELETE ==
    \E r \in SeqReqs(SeqImsis, SeqPdrIds, {""}, {"none"}) :
        Served("validation", "DELETE", r, deleteValidation(r), db)

\* a faulty GET: the rows it lists are set inactive
SeqVsGET_Consumes ==
    \E r \in SeqReqs(SeqImsis, SeqPdrIds, SeqDnns, {"none"}) :
        Served("vs", "vs.GET", r, getValidationVs(r),
            [db EXCEPT !.pdr =
                [i \in 1..Len(db.pdr) |->
                    IF OwnerOf(db.pdr[i]) = r.imsi
                    THEN [db.pdr[i] EXCEPT !.status = "inactive"]
                    ELSE db.pdr[i]]])

SeqVsGET ==
    \E r \in SeqReqs(SeqImsis, SeqPdrIds, SeqDnns, {"none"}) :
        Served("vs", "vs.GET", r, getValidationVs(r), db)

SeqVsPOST ==
    \E r \in SeqReqs(SeqImsis, SeqPdrIds, SeqDnns, {"none", "queryErr"}) :
        Served("vs", "vs.POST", r, postValidationVs(r), db)

SeqVsPUT ==
    \E r \in SeqReqs({""}, SeqPdrIds, SeqDnns, {"none"}) :
        Served("vs", "vs.PUT", r, putValidationVs(r), putValidationVs(r).db)

SeqVsDELETE ==
    \E r \in SeqReqs({""}, SeqPdrIds, SeqDnns, {"none"}) :
        Served("vs", "vs.DELETE", r, deleteValidationVs(r), deleteValidationVs(r).db)

SeqClientPOST ==
    \E r \in SeqReqs(SeqImsis, SeqPdrIds, SeqDnns, {"none", "ruleIms"}) :
        Served("client", "client.POST", r, clientPostValidate(r), db)

InitSeq ==
    /\ imsi = SeedImsi /\ session = SeedSession /\ db = SeedDb
    /\ serving = {"agents", "validation", "vs", "client"}
    /\ Idle
    /\ \E t \in Tracks : log = [NoLog EXCEPT !.track = t]
    /\ pfcp = NoPfcp
    /\ proc = Running

NextSeq ==
    \/ SeqGET \/ SeqPOST \/ SeqPUT \/ SeqDELETE
    \/ SeqVsGET \/ SeqVsPOST \/ SeqVsPUT \/ SeqVsDELETE
    \/ SeqClientPOST
    \/ Return

SpecSeq == InitSeq /\ [][NextSeq]_vars

(* C11: once DELETE /validate has answered "PDR deleted successfully" for   *)
(* a PDR, a later GET /validate of the same server for the IMSI lists that  *)
(* PDR in neither internet_pdrs nor ims_pdrs, and a later POST /validate    *)
(* for the PDR does not answer that it was found.  deleteValidation of      *)
(* package validation answers success and deletes nothing.                  *)
C11_DeletedNoLongerListed ==
    \A d \in log.deleted :
        (/\ ServerOf(req.handler) = d.srv /\ req.fault = "none"
         /\ d.imsi \in {"", req.imsi})
            => /\ req.handler \in {"GET", "vs.GET"}
                  => /\ ~contains(resp.internetPdrs, d.pdr_id)
                     /\ ~contains(resp.imsPdrs, d.pdr_id)
               /\ (req.handler \in {"POST", "vs.POST"} /\ req.pdr_id = d.pdr_id
                   /\ d.dnn \in {"", req.dnn})
                  => ~(resp.code = StatusOK /\ resp.status \in {"success", "Found"})

C18_DeleteThenPutRestores ==
    \A u \in log.undone :
        (/\ u.restored /\ ServerOf(req.handler) = u.srv
         /\ req.handler \in {"GET", "vs.GET"} /\ req.fault = "none")
            => /\ sets.internet = u.before[req.imsi].internet
               /\ sets.ims = u.before[req.imsi].ims

----------------------------------------------------------------------------
(* Start-up of the rule agent.  SpecStart follows StartRuleAgent statement  *)
(* by statement (proc.rule names the last statement done) while clients     *)
(* call GetRule and ValidatePDR at any time.                                *)

\* net.Listen succeeds: the port is open, nothing is served yet
RuleListen ==
    /\ proc.rule = "main"
    /\ proc' = [proc EXCEPT !.rule = "Listen"]
    /\ UNCHANGED <<imsi, session, db, serving, req, resp, sets, reads, log, pfcp>>

\* net.Listen fails: log.Fatalf ends the process
RuleListenFails ==
    /\ proc.rule = "main"
    /\ proc' = [proc EXCEPT !.rule = "Fatal"]
    /\ UNCHANGED <<imsi, session, db, serving, req, resp, sets, reads, log, pfcp>>

\* srv := &ruleServer{session: make(map[string]Sessions)}
RuleMake ==
    /\ proc.rule = "Listen"
    /\ session' = <<>>
    /\ proc' = [proc EXCEPT !.rule = "make"]
    /\ UNCHANGED <<imsi, db, serving, req, resp, sets, reads, log, pfcp>>

\* srv.session["fseid1"] = ..., then srv.session["fseid2"] = ...
RuleSeed ==
    \E f \in DOMAIN SeedSession :
        /\ \/ proc.rule = "make" /\ f = "fseid1"
           \/ proc.rule = "fseid1" /\ f = "fseid2"
        /\ session' = [g \in DOMAIN session \cup {f} |->
                          IF g = f THEN SeedSession[f] ELSE session[g]]
        /\ proc' = [proc EXCEPT !.rule = f]
        /\ UNCHANGED <<imsi, db, serving, req, resp, sets, reads, log, pfcp>>

\* a faulty start: the server is serving as soon as the map is made, while
\* the seeding goes on
RuleServe_Early ==
    /\ proc.rule = "make"
    /\ "agents" \notin serving
    /\ serving' = serving \cup {"agents"}
    /\ UNCHANGED <<imsi, session, db, req, resp, sets, reads, log, proc, pfcp>>

\* pb.RegisterRequestServer(s, srv); s.Serve(lis)
RuleServe ==
    /\ proc.rule = "fseid2"
    /\ "agents" \notin serving
    /\ serving' = serving \cup {"agents"}
    /\ proc' = [proc EXCEPT !.rule = "Serve"]
    /\ UNCHANGED <<imsi, session, db, req, resp, sets, reads, log, pfcp>>

\* a GetRule or ValidatePDR call that arrives before s.Serve: no handler
\* runs, the client's call fails
RpcUnserved ==
    \E r \in {[NoReq EXCEPT !.handler = "GetRule", !.fsied = f] : f \in ReqFseids}
              \cup {[v EXCEPT !.handler = "ValidatePDR"] : v \in ValidateReqs({"none"})} :
        /\ "agents" \notin serving
        /\ req = NoReq
        /\ req' = r
        /\ resp' = [NoResp EXCEPT !.grpc = CallError]
        /\ sets' = NoSets
        /\ reads' = NoReads
        /\ UNCHANGED <<imsi, session, db, serving, log, proc, pfcp>>

\* server.go has started StartRuleAgent; its map does not exist yet
InitStart ==
    /\ imsi = SeedImsi /\ session = <<>> /\ db = EmptyDb
    /\ serving = {}
    /\ Idle
    /\ log = NoLog
    /\ pfcp = NoPfcp
    /\ proc = [Running EXCEPT !.rule = "main", !.menu = MenuIdle]

NextStart ==
    \/ RuleListen \/ RuleListenFails \/ RuleMake \/ RuleSeed \/ RuleServe
    \/ RpcUnserved \/ RpcGetRule \/ RpcValidatePDR
    \/ Return

SpecStart == InitStart /\ [][NextStart]_vars

(* C19: a GetRule (or ValidatePDR) call is answered by the rule agent only  *)
(* when the session map holds every sample session in full, and the map is  *)
(* not written once the agent serves: no reader sees a half-filled map or   *)
(* bundle.                                                                  *)
AnsweredByRuleAgent ==
    req.handler \in {"GetRule", "ValidatePDR"} /\ resp.grpc \in {OK, NotFound}

ReadersSeeWholeMap == AnsweredByRuleAgent => session = SeedSession

NoWriteWhileServing == "agents" \in serving => session' = session

C19_ReadersSeeSeededMap ==
    []ReadersSeeWholeMap /\ [][NoWriteWhileServing]_vars

\* the first call after s.Serve finds the second session with both PDR ids
C19_Witness ==
    /\ proc.rule = "Serve"
    /\ req.handler = "GetRule" /\ req.fsied = "fseid2"
    /\ resp.grpc = OK /\ resp.reply[1].Pdr.PdrId = <<"pdr3", "pdr4">>

----------------------------------------------------------------------------
(* The client's validation-server menu.  SpecMenu follows the commands      *)
(* Start (sub-menu "1"), Stop (sub-menu "2") and Exit (menu "6").  The      *)
(* engines startValidationServer creates are numbered; a number is free     *)
(* again when the engine's goroutine has ended.  "client" \in serving says  *)
(* that a listener accepts on localhost:8081.                               *)

\* how many engines may be alive at once (listening, or about to call Run)
MaxStarts == 2

\* engine numbers
Engines == 1..MaxStarts

\* sub-menu "1": startValidationServer (a new engine, a goroutine that will
\* call router.Run) and serverRunning = true
MenuStart ==
    \E n \in Engines :
        /\ ~proc.menu.exited /\ ~proc.menu.serverRunning
        /\ n \notin proc.menu.binding /\ n # proc.menu.bound
        /\ \A m \in 1..(n - 1) : m \in proc.menu.binding \/ m = proc.menu.bound
        /\ proc' = [proc EXCEPT !.menu.validationServer = n,
                                !.menu.binding = @ \cup {n},
                                !.menu.serverRunning = TRUE]
        /\ UNCHANGED <<imsi, session, db, serving, req, resp, sets, reads, log, pfcp>>

\* the goroutine of engine n: router.Run("localhost:8081") listens, or fails
\* with "address already in use" when another engine holds the port
MenuRun ==
    \E n \in proc.menu.binding :
        /\ proc' = [proc EXCEPT !.menu.binding = @ \ {n},
                                !.menu.bound = IF @ = 0 THEN n ELSE @]
        /\ serving' = serving \cup {"client"}
        /\ UNCHANGED <<imsi, session, db, req, resp, sets, reads, log, pfcp>>

\* sub-menu "2": stopValidationServer shuts down a new http.Server that was
\* never started (the listener router.Run opened is not touched), sets
\* validationServer = nil; then serverRunning = false
MenuStop ==
    /\ ~proc.menu.exited /\ proc.menu.serverRunning
    /\ proc' = [proc EXCEPT !.menu.validationServer = 0,
                            !.menu.serverRunning = FALSE]
    /\ UNCHANGED <<imsi, session, db, serving, req, resp, sets, reads, log, pfcp>>

\* menu "6": cleanup, then main returns: the process and its listener end
MenuExit ==
    /\ ~proc.menu.exited
    /\ req = NoReq
    /\ proc' = [proc EXCEPT !.menu = [MenuIdle EXCEPT !.exited = TRUE]]
    /\ serving' = serving \ {"client"}
    /\ UNCHANGED <<imsi, session, db, req, resp, sets, reads, log, pfcp>>

\* the client has just been started; the agents run with their sample data
InitMenu ==
    /\ imsi = SeedImsi /\ session = SeedSession /\ db = EmptyDb
    /\ serving = {"agents"}
    /\ Idle
    /\ log = NoLog
    /\ pfcp = NoPfcp
    /\ proc = [Running EXCEPT !.menu = MenuIdle]

NextMenu ==
    \/ MenuStart \/ MenuRun \/ MenuStop \/ MenuExit
    \/ ClientPOST
    \/ Return

SpecMenu == InitMenu /\ [][NextMenu]_vars

(* C20: whatever Start, Stop and Exit commands were given, once every       *)
(* started goroutine has called router.Run, localhost:8081 accepts          *)
(* /validate requests exactly when serverRunning is true.  Stop leaves the  *)
(* listener of router.Run open.                                             *)
C20_ServesIffRunning ==
    proc.menu.binding = {}
        => (("client" \in serving) <=> proc.menu.serverRunning)

----------------------------------------------------------------------------
(* Waiting for the stores.  SpecLive splits a validation request at its     *)
(* store reads: a read is in flight (proc.call) until the store answers or, *)
(* for a store that never answers, until the deadline of the call passes.   *)
(* The client's getData runs GetIMSI and GetRule under one                  *)
(* context.WithTimeout of 10 s; DB.Query is called without a context.       *)

LiveReqs == SeqReqs(SeqImsis \cup {"IMSI9"}, {"pdr1", "pdr9"}, SeqDnns, {"none"})

\* the read getData of the client makes after GetIMSI answered
AfterDir(number) ==
    IF number \notin DOMAIN imsi THEN "none"
    ELSE IF imsi[number].Inter # "" THEN "inter"
    ELSE IF imsi[number].Ims # "" THEN "ims"
    ELSE "none"

\* the read it makes after the internet GetRule returned
AfterInter(number) == IF imsi[number].Ims # "" THEN "ims" ELSE "none"

\* the handler's answer to request r, all reads done
Answered(r) ==
    IF r.handler = "client.POST" THEN clientPostValidate(r)
    ELSE IF r.handler = "POST" THEN postValidation(r)
    ELSE getValidationVs(r)

\* request r is answered
Finish(r) ==
    /\ req' = r
    /\ resp' = Answered(r).resp
    /\ sets' = Answered(r).sets
    /\ reads' = Answered(r).reads
    /\ proc' = [proc EXCEPT !.call = NoCall]

\* a request arrives and the handler starts its first read
LiveTake ==
    \E r \in LiveReqs, h \in BOOLEAN, name \in {"client.POST", "POST", "vs.GET"} :
        /\ ServerOf(name) \in serving
        /\ req = NoReq
        /\ req' = [r EXCEPT !.handler = name]
        /\ proc' = [proc EXCEPT !.call =
                       Call(IF name = "client.POST" THEN "dir" ELSE "db", h)]
        /\ UNCHANGED <<imsi, session, db, serving, resp, sets, reads, log, pfcp>>

\* the store answers the read in flight; the handler goes on to its next
\* read or answers the request
StoreAnswers ==
    /\ proc.call.read # "none" /\ ~proc.call.hung
    /\ LET next == IF proc.call.read = "dir" THEN AfterDir(req.imsi)
                   ELSE IF proc.call.read = "inter" THEN AfterInter(req.imsi)
                   ELSE "none"
       IN  IF next = "none"
           THEN Finish(req)
           ELSE /\ \E h \in BOOLEAN : proc' = [proc EXCEPT !.call = Call(next, h)]
                /\ UNCHANGED <<req, resp, sets, reads>>
    /\ UNCHANGED <<imsi, session, db, serving, log, pfcp>>

\* the 10 s of ctx pass on a gRPC read that is not answered: the call
\* returns an error, and so does every later call under the same ctx
Deadline ==
    /\ proc.call.hung /\ proc.call.read \in {"dir", "inter", "ims"}
    /\ Finish([req EXCEPT !.fault =
                  IF proc.call.read = "dir" THEN "rpcImsi"
                  ELSE IF proc.call.read = "ims" THEN "ruleIms"
                  ELSE IF imsi[req.imsi].Ims # "" THEN "ruleBoth"
                  ELSE "ruleInter"])
    /\ UNCHANGED <<imsi, session, db, serving, log, pfcp>>

\* the handler returns after it has written its response
LiveReturn == resp # NoResp /\ Return

InitLive ==
    /\ imsi = SeedImsi /\ session = SeedSession /\ db = SeedDb
    /\ serving = {"agents", "validation", "vs", "client"}
    /\ Idle
    /\ log = NoLog
    /\ pfcp = NoPfcp
    /\ proc = Running

NextLive == LiveTake \/ StoreAnswers \/ Deadline \/ LiveReturn

\* a store that is going to answer does answer, a deadline that is set does
\* pass, and a handler that has written its response does return
SpecLive ==
    /\ InitLive /\ [][NextLive]_vars
    /\ WF_vars(StoreAnswers) /\ WF_vars(Deadline) /\ WF_vars(LiveReturn)

(* C15: every validation request is eventually answered, also when a store  *)
(* read is never answered (the directory read, a session read or the        *)
(* database query): the deadline of the read ends the wait.  DB.Query has   *)
(* no deadline, and a request whose query is not answered waits forever.    *)
C15_RequestEventuallyAnswered == (req # NoReq) ~> (resp # NoResp)

----------------------------------------------------------------------------
(* The PFCP agent.  pfcp holds the fields of its pfcpserver (count,         *)
(* flowData), the PutRequest handlers gRPC runs, one goroutine per call     *)
(* (h), and whether the runtime has ended the process (fatal).  The file    *)
(* carries two variants of PutRequest: the server-streaming one and the     *)
(* unary one; a deployment runs one of them (variant).  Neither takes a     *)
(* lock, so the statements of concurrent handlers interleave at every       *)
(* access to count and flowData: s.count++ is a load and a store, and the   *)
(* map is read at one statement and written at another.                     *)

\* uint64 arithmetic, with the word scaled down to WordBits bits so that
\* sums wrap within the values the model reaches
WordBits == 13
Word == 2^WordBits
Add64(a, b) == (a + b) % Word

\* bound on the updates the handlers make together
MaxUpdates == 3

\* the goroutines running PutRequest, and the F-SEIDs clients ask for
Handlers == {"h1", "h2"}
FlowKeys == {"exampleFSEID", "fseid1"}

\* imsiList of StartPFCPAgent
imsiList == <<"IMSI1", "IMSI2", "IMSI3">>

\* struct flowmeasuredata of the streaming variant
flowmeasuredata(rxp, txp, rxs, txs, all) ==
    [Total_Packets |-> 0, Rx_Packet |-> rxp, Tx_Packet |-> txp,
     Rx_Speed |-> rxs, Tx_Speed |-> txs, Total_Speed |-> 0, All_IMSI |-> all]

\* struct flowmeasuredata of the unary variant
flowmeasuredataUnary(rxp, txp, rxb, txb, all) ==
    [Rx_Packet |-> rxp, Tx_Packet |-> txp, Rx_Byte |-> rxb, Tx_Byte |-> txb,
     All_IMSI |-> all]

\* the pfcpserver StartPFCPAgent builds, in either variant
StartPFCPAgent(variant) ==
    [variant |-> variant,
     count |-> 0,
     flowData |->
        [f \in {"exampleFSEID"} |->
            IF variant = "stream"
            THEN flowmeasuredata(100, 200, 3000, 4000, imsiList)
            ELSE flowmeasuredataUnary(100, 200, 3000, 4000, imsiList)],
     h |-> [st \in Handlers |->
              [pc |-> "none", Fseid |-> "", n |-> 0, ok |-> FALSE,
               data |-> <<>>, add |-> <<>>, sent |-> <<>>, updates |-> 0,
               cancelled |-> FALSE, err |-> "none"]],
     fatal |-> FALSE]

\* the four values rand.Intn draws in one update: Intn(50) twice, then
\* Intn(1000) twice
Rands ==
    { <<0, 0, 0, 0>>, <<49, 1, 999, 999>> }

\* a faulty reply that sends the totals kept in the struct, which no
\* statement updates
Reply_StoredTotals(data, count) ==
    [Total_Packets |-> data.Total_Packets,
     Rx_Packet |-> data.Rx_Packet,
     Tx_Packet |-> data.Tx_Packet,
     Rx_Speed |-> data.Rx_Speed,
     Tx_Speed |-> data.Tx_Speed,
     Total_Speed |-> data.Total_Speed,
     All_IMSI |-> data.All_IMSI,
     Count |-> count]

\* the pb.Reply the streaming PutRequest sends
Reply(data, count) ==
    [Total_Packets |-> Add64(data.Rx_Packet, data.Tx_Packet),
     Rx_Packet |-> data.Rx_Packet,
     Tx_Packet |-> data.Tx_Packet,
     Rx_Speed |-> data.Rx_Speed,
     Tx_Speed |-> data.Tx_Speed,
     Total_Speed |-> Add64(data.Rx_Speed, data.Tx_Speed),
     All_IMSI |-> data.All_IMSI,
     Count |-> count]

\* the pb.Reply the unary PutRequest returns
ReplyUnary(ok, data, all, count) ==
    [Rx_Packet |-> IF ok THEN data.Rx_Packet ELSE 0,
     Tx_Packet |-> IF ok THEN data.Tx_Packet ELSE 0,
     Rx_Byte |-> IF ok THEN data.Rx_Byte ELSE 0,
     Tx_Byte |-> IF ok THEN data.Tx_Byte ELSE 0,
     All_IMSI |-> all,
     Count |-> count]

\* handler st moves on: its fields become those of upd
Step(st, upd) == [pfcp.h EXCEPT ![st] = upd]

\* the updates begun so far, over all handlers
Updates ==
    LET RECURSIVE Sum(_)
        Sum(S) == IF S = {} THEN 0
                  ELSE LET st == CHOOSE x \in S : TRUE
                       IN  pfcp.h[st].updates
                           + (IF pfcp.h[st].pc = "store" THEN 1 ELSE 0)
                           + Sum(S \ {st})
    IN  Sum(Handlers)

Rest == UNCHANGED <<imsi, session, db, serving, req, resp, sets, reads, log, proc>>

\* a client calls PutRequest: gRPC starts the handler in a goroutine
PutRequestCall(st) ==
    /\ ~pfcp.fatal /\ pfcp.h[st].pc = "none"
    /\ \E f \in FlowKeys :
        pfcp' = [pfcp EXCEPT !.h = Step(st, [pfcp.h[st] EXCEPT
                                  !.pc = "load", !.Fseid = f])]
    /\ Rest

\* s.count++, first half: the handler loads count
CountLoad(st) ==
    /\ ~pfcp.fatal /\ pfcp.h[st].pc = "load"
    /\ Updates < MaxUpdates
    /\ pfcp' = [pfcp EXCEPT !.h = Step(st, [pfcp.h[st] EXCEPT
                              !.pc = "store", !.n = pfcp.count])]
    /\ Rest

\* s.count++, second half: the handler stores the loaded value plus one
CountStore(st) ==
    /\ ~pfcp.fatal /\ pfcp.h[st].pc = "store"
    /\ pfcp' = [pfcp EXCEPT
                  !.count = Add64(pfcp.h[st].n, 1),
                  !.h = Step(st, [pfcp.h[st] EXCEPT
                              !.pc = "get", !.updates = @ + 1])]
    /\ Rest

\* data, ok := s.flowData[req.Fseid], the zero struct when there is no
\* entry, and the four random increments on the handler's copy
FlowGet(st) ==
    /\ ~pfcp.fatal /\ pfcp.variant = "stream" /\ pfcp.h[st].pc = "get"
    /\ LET f == pfcp.h[st].Fseid
           ok == f \in DOMAIN pfcp.flowData
           data == IF ok THEN pfcp.flowData[f]
                   ELSE flowmeasuredata(0, 0, 0, 0, imsiList)
       IN  \E r \in Rands :
            pfcp' = [pfcp EXCEPT !.h = Step(st, [pfcp.h[st] EXCEPT
                        !.pc = "put", !.ok = ok, !.add = r,
                        !.data = [data EXCEPT
                            !.Rx_Packet = Add64(@, r[1]),
                            !.Tx_Packet = Add64(@, r[2]),
                            !.Rx_Speed = Add64(@, r[3]),
                            !.Tx_Speed = Add64(@, r[4])]])]
    /\ Rest

\* s.flowData[req.Fseid] = data
FlowPut(st) ==
    /\ ~pfcp.fatal /\ pfcp.h[st].pc = "put"
    /\ LET f == pfcp.h[st].Fseid
       IN  pfcp' = [pfcp EXCEPT
                      !.flowData = [g \in DOMAIN pfcp.flowData \cup {f} |->
                                      IF g = f THEN pfcp.h[st].data
                                      ELSE pfcp.flowData[g]],
                      !.h = Step(st, [pfcp.h[st] EXCEPT !.pc = "send"])]
    /\ Rest

\* what the handler leaves behind for one reply: the reply, and the update
\* step it came from (whether the entry was there, the increments drawn,
\* the struct stored)
Sent(h, reply) ==
    [reply |-> reply, ok |-> h.ok, add |-> h.add, stored |-> h.data]

\* stream.Send succeeds; the handler sleeps and starts the next update.
\* A Send may still succeed after the client has cancelled, until the
\* cancellation has reached the server.
Send(st) ==
    /\ ~pfcp.fatal /\ pfcp.h[st].pc = "send"
    /\ pfcp' = [pfcp EXCEPT !.h = Step(st, [pfcp.h[st] EXCEPT
                  !.pc = "load",
                  !.sent = Append(@, Sent(pfcp.h[st],
                                     Reply(pfcp.h[st].data, pfcp.count)))])]
    /\ Rest

\* a faulty handler that logs the error of a failed Send and loops on
SendFails_LoopsOn(st) ==
    /\ ~pfcp.fatal /\ pfcp.h[st].pc = "send" /\ pfcp.h[st].cancelled
    /\ pfcp' = [pfcp EXCEPT !.h = Step(st, [pfcp.h[st] EXCEPT
                  !.pc = "load", !.err = "Canceled"])]
    /\ Rest

\* stream.Send fails once the stream is cancelled: return err
SendFails(st) ==
    /\ ~pfcp.fatal /\ pfcp.h[st].pc = "send" /\ pfcp.h[st].cancelled
    /\ pfcp' = [pfcp EXCEPT !.h = Step(st, [pfcp.h[st] EXCEPT
                  !.pc = "returned", !.err = "Canceled"])]
    /\ Rest

\* the client's reader goroutine: ENTER was pressed, cancel().  The handler
\* looks at the stream only in Send, so a cancellation made anywhere in an
\* update is taken when the handler has come to its Send.
Cancel(st) ==
    /\ ~pfcp.fatal /\ pfcp.variant = "stream"
    /\ pfcp.h[st].pc = "send" /\ ~pfcp.h[st].cancelled
    /\ pfcp' = [pfcp EXCEPT !.h = Step(st, [pfcp.h[st] EXCEPT
                  !.cancelled = TRUE])]
    /\ Rest

\* the unary PutRequest after s.count++: the map is read and the reply is
\* returned with the count read then, beside NotFound when there is no
\* entry
PutRequestUnary(st) ==
    /\ ~pfcp.fatal /\ pfcp.variant = "unary" /\ pfcp.h[st].pc = "get"
    /\ LET f == pfcp.h[st].Fseid
           ok == f \in DOMAIN pfcp.flowData
           data == IF ok THEN pfcp.flowData[f] ELSE <<>>
           h == [pfcp.h[st] EXCEPT !.ok = ok, !.data = data]
       IN  pfcp' = [pfcp EXCEPT !.h = Step(st, [h EXCEPT
                      !.pc = "returned",
                      !.err = IF ok THEN OK ELSE NotFound,
                      !.sent = <<Sent(h, ReplyUnary(ok, data, imsiList,
                                                   pfcp.count))>>])]
    /\ Rest

\* two handlers are at the map at once and one of them writes: the runtime
\* may notice it and end the process ("concurrent map writes", "concurrent
\* map read and map write")
Throw ==
    /\ ~pfcp.fatal
    /\ \E a, b \in Handlers :
        /\ a # b
        /\ pfcp.h[a].pc = "put"
        /\ pfcp.h[b].pc \in {"put"} \cup
                (IF pfcp.variant = "stream" THEN {"get"} ELSE {})
    /\ pfcp' = [pfcp EXCEPT !.fatal = TRUE]
    /\ Rest

InitPfcp ==
    /\ imsi = SeedImsi /\ session = SeedSession /\ db = SeedDb
    /\ serving = {"pfcp"}
    /\ Idle
    /\ log = NoLog
    /\ proc = [Running EXCEPT !.menu = MenuIdle]
    /\ \E v \in {"stream", "unary"} : pfcp = StartPFCPAgent(v)

NextPfcp ==
    \/ \E st \in Handlers :
        \/ PutRequestCall(st) \/ CountLoad(st) \/ CountStore(st)
        \/ FlowGet(st) \/ FlowPut(st) \/ Send(st) \/ SendFails(st)
        \/ Cancel(st) \/ PutRequestUnary(st)
    \/ Throw

SpecPfcp == InitPfcp /\ [][NextPfcp]_vars

\* the replies the handlers have sent, each with the handler and its place
\* in that handler's stream
Delivered ==
    { <<st, i>> \in Handlers \X (1..MaxUpdates) : i <= Len(pfcp.h[st].sent) }

(* C21: PutRequest keeps one update counter: every update (in the unary     *)
(* variant every request, also one for an unknown F-SEID) raises count by   *)
(* exactly one, so that count is the number of updates made whenever no     *)
(* increment is under way, and no two replies carry the same Count, also    *)
(* when streams or requests run concurrently.  s.count++ takes no lock, and *)
(* Count is read when the reply is built: two handlers can store the same   *)
(* value, and two replies can carry the same Count.                         *)
C21_OneUpdateCounter ==
    /\ (\A st \in Handlers : pfcp.h[st].pc # "store") => pfcp.count = Updates
    /\ \A a, b \in Delivered :
        a # b => pfcp.h[a[1]].sent[a[2]].reply.Count
                    # pfcp.h[b[1]].sent[b[2]].reply.Count

\* the update behind reply e wrapped none of its four counters: a sum
\* modulo the word is below its addend exactly when it wrapped
NoWrap(e) ==
    /\ e.reply.Rx_Packet >= e.add[1] /\ e.reply.Tx_Packet >= e.add[2]
    /\ e.reply.Rx_Speed >= e.add[3] /\ e.reply.Tx_Speed >= e.add[4]

(* C22: within one PutRequest stream the Rx_Packet, Tx_Packet, Rx_Speed and *)
(* Tx_Speed of successive replies never decrease (wrap of the word aside),  *)
(* also when another stream for the same F-SEID updates the shared flowData *)
(* entry concurrently.  Each handler adds to its own copy of the entry and  *)
(* stores the copy back: the store of one stream undoes the additions the   *)
(* other stream stored in between.                                          *)
C22_CountersNeverDecrease ==
    \A st \in Handlers : \A i \in 1..MaxUpdates :
        (pfcp.variant = "stream" /\ i + 1 <= Len(pfcp.h[st].sent)
            /\ NoWrap(pfcp.h[st].sent[i + 1]))
        => LET a == pfcp.h[st].sent[i].reply
               b == pfcp.h[st].sent[i + 1].reply
           IN  /\ b.Rx_Packet >= a.Rx_Packet /\ b.Tx_Packet >= a.Tx_Packet
               /\ b.Rx_Speed >= a.Rx_Speed /\ b.Tx_Speed >= a.Tx_Speed

\* the replies of the streaming variant, with their update steps
StreamSent ==
    IF pfcp.variant = "stream"
    THEN { pfcp.h[d[1]].sent[d[2]] : d \in Delivered }
    ELSE {}

(* C23: every reply of the streaming PutRequest has Total_Packets =         *)
(* Rx_Packet + Tx_Packet and Total_Speed = Rx_Speed + Tx_Speed, modulo the  *)
(* word; its Rx and Tx values are the values the same update step stored in *)
(* flowData for the F-SEID; and an update that found no entry for the       *)
(* F-SEID started from all-zero counters, so its reply carries just the     *)
(* increments drawn.                                                        *)
C23_ReplyTotalsAndStoredValues ==
    \A e \in StreamSent :
        /\ e.reply.Total_Packets = (e.reply.Rx_Packet + e.reply.Tx_Packet) % Word
        /\ e.reply.Total_Speed = (e.reply.Rx_Speed + e.reply.Tx_Speed) % Word
        /\ e.reply.Rx_Packet = e.stored.Rx_Packet
        /\ e.reply.Tx_Packet = e.stored.Tx_Packet
        /\ e.reply.Rx_Speed = e.stored.Rx_Speed
        /\ e.reply.Tx_Speed = e.stored.Tx_Speed
        /\ ~e.ok => /\ e.reply.Rx_Packet = e.add[1]
                    /\ e.reply.Tx_Packet = e.add[2]
                    /\ e.reply.Rx_Speed = e.add[3]
                    /\ e.reply.Tx_Speed = e.add[4]

\* a reply whose Total_Speed wrapped has been sent, and so has a reply of
\* an update that found no entry and drew increments above zero
C23_Witness ==
    /\ \E e \in StreamSent : e.reply.Total_Speed < e.reply.Rx_Speed
    /\ \E e \in StreamSent : ~e.ok /\ e.reply.Rx_Packet > 0

\* a handler of the streaming variant has returned only from a Send that
\* failed on a cancelled stream, with that error
EndsOnlyOnFailedSend ==
    \A st \in Handlers :
        (pfcp.variant = "stream" /\ pfcp.h[st].pc = "returned")
        => pfcp.h[st].cancelled /\ pfcp.h[st].err = "Canceled"

\* a step on which a streaming handler returns is a failed Send, and after
\* a failed Send the handler takes no step: it sends no reply and writes
\* neither count nor flowData
QuietAfterFailedSend ==
    \A st \in Handlers :
        pfcp.variant = "stream" =>
            /\ (pfcp.h[st].pc # "returned" /\ pfcp'.h[st].pc = "returned")
                => /\ pfcp.h[st].pc = "send" /\ pfcp.h[st].cancelled
                   /\ pfcp'.h[st].err = "Canceled"
                   /\ pfcp'.count = pfcp.count
                   /\ pfcp'.flowData = pfcp.flowData
                   /\ pfcp'.h[st].sent = pfcp.h[st].sent
            /\ pfcp.h[st].err # "none"
                => /\ pfcp'.h[st] = pfcp.h[st]
                   /\ pfcp.h[st].pc = "returned"

(* C24: the streaming handler never ends the stream on its own while its    *)
(* sends succeed; once the client has cancelled and a Send fails, the       *)
(* handler returns that error, sends no further reply and changes neither   *)
(* flowData nor count any more for that stream.                             *)
C24_EndsOnlyWhenSendFails ==
    []EndsOnlyOnFailedSend /\ [][QuietAfterFailedSend]_vars

\* a stream that had delivered a reply was cancelled and its handler has
\* returned, and the other stream has made an update of its own since
C24_Witness ==
    \E st \in Handlers : \E o \in Handlers \ {st} :
        /\ pfcp.variant = "stream"
        /\ pfcp.h[st].pc = "returned" /\ Len(pfcp.h[st].sent) >= 1
        /\ Len(pfcp.h[o].sent) >= 1
        /\ pfcp.h[o].sent[Len(pfcp.h[o].sent)].reply.Count > pfcp.h[st].n + 1

----------------------------------------------------------------------------
(* Start-up of the database validation servers: main (Validation Server.go) *)
(* and StartValidationServer (package validation) open the database, call   *)
(* seedDatabase and then serve.  proc.boot follows one such process over    *)
(* its starts; the database outlives the process.                           *)

\* bound on the starts of the validation server process
MaxBoots == 2

\* id of the imsi row of subscriber name, 0 when there is none
ImsiId(d, name) ==
    IF \E i \in DOMAIN d.imsi : d.imsi[i] = name
    THEN CHOOSE i \in DOMAIN d.imsi : d.imsi[i] = name
    ELSE 0

\* id of the fseid row (value, imsiId), 0 when there is none
FseidId(d, value, imsiId) ==
    LET hit(i) == d.fseid[i].fseid_value = value /\ d.fseid[i].imsi_id = imsiId
    IN  IF \E i \in DOMAIN d.fseid : hit(i)
        THEN CHOOSE i \in DOMAIN d.fseid : hit(i)
        ELSE 0

\* INSERT IGNORE INTO imsi: a second row of the same imsi_number is dropped
InsertImsi(d, name) ==
    IF ImsiId(d, name) # 0 THEN d
    ELSE [d EXCEPT !.imsi = Append(@, name)]

\* INSERT INTO fseid: refused without its imsi row (FOREIGN KEY) and for a
\* second (fseid_value, imsi_id) (unique_fseid)
InsertFseid(d, value, imsiId) ==
    IF imsiId = 0 \/ FseidId(d, value, imsiId) # 0 THEN d
    ELSE [d EXCEPT !.fseid = Append(@, [imsi_id |-> imsiId,
                                        fseid_value |-> value])]

\* INSERT INTO pdr (..., 'active'): refused without its fseid row (FOREIGN
\* KEY) and for a second (fseid_id, pdr_id) (unique_pdr)
InsertPdr(d, fseidId, pdrId, dnn) ==
    IF \/ fseidId = 0
       \/ \E i \in DOMAIN d.pdr :
            d.pdr[i].fseid_id = fseidId /\ d.pdr[i].pdr_id = pdrId
    THEN d
    ELSE [d EXCEPT !.pdr = Append(@, [fseid_id |-> fseidId, pdr_id |-> pdrId,
                                      dnn |-> dnn, status |-> "active"])]

\* the mock data of seedDatabase in Validation Server.go
SeedEntries ==
    <<[imsi |-> "IMSI1",
       fseids |-> <<[fseid |-> "fseid1", pdr_id |-> "pdr1", dnn |-> "internet"],
                    [fseid |-> "fseid2", pdr_id |-> "pdr2", dnn |-> "ims"]>>],
      [imsi |-> "IMSI2",
       fseids |-> <<[fseid |-> "fseid3", pdr_id |-> "pdr3", dnn |-> "internet"],
                    [fseid |-> "fseid4", pdr_id |-> "pdr4", dnn |-> "ims"]>>],
      [imsi |-> "IMSI3",
       fseids |-> <<[fseid |-> "fseid5", pdr_id |-> "pdr5", dnn |-> "internet"],
                    [fseid |-> "fseid6", pdr_id |-> "pdr6", dnn |-> "ims"]>>]>>

\* one key of an entry: the fseid row, then its pdr row; every error is
\* dropped
SeedFseid(d, imsiId, f) ==
    LET d1 == InsertFseid(d, f.fseid, imsiId)
    IN  InsertPdr(d1, FseidId(d1, f.fseid, imsiId), f.pdr_id, f.dnn)

\* one entry: the imsi row, then the keys of the entry in the order range
\* yields them (second: the second key comes first)
SeedEntry(d, e, second) ==
    LET d1 == InsertImsi(d, e.imsi)
        id == ImsiId(d1, e.imsi)
        a == IF second THEN e.fseids[2] ELSE e.fseids[1]
        b == IF second THEN e.fseids[1] ELSE e.fseids[2]
    IN  SeedFseid(SeedFseid(d1, id, a), id, b)

\* seedDatabase of Validation Server.go over the entries i..k (k below the
\* number of entries: the process was ended while it was seeding)
RECURSIVE seedDatabaseVs(_, _, _, _)
seedDatabaseVs(d, i, k, order) ==
    IF i > k THEN d
    ELSE seedDatabaseVs(SeedEntry(d, SeedEntries[i], order[i]), i + 1, k, order)

\* seedDatabase of package validation: nothing when the count fails or the
\* imsi table holds a row; else one transaction (rolled back on an error)
\* that inserts the subscriber, fseid1 and its three pdr rows, the classes
\* in the order range yields them
seedDatabase(d, fault, imsFirst) ==
    IF fault # "none" \/ Len(d.imsi) > 0 THEN d
    ELSE LET d1 == InsertImsi(d, "001011234567890")
             d2 == InsertFseid(d1, "fseid1", ImsiId(d1, "001011234567890"))
             id == FseidId(d2, "fseid1", ImsiId(d1, "001011234567890"))
             internet(x) == InsertPdr(InsertPdr(x, id, "pdr1", "internet"),
                                      id, "pdr2", "internet")
             ims(x) == InsertPdr(x, id, "pdr3", "ims")
         IN  IF imsFirst THEN internet(ims(d2)) ELSE ims(internet(d2))

\* StartValidationServer: seedDatabase, then the server listens
BootSeed ==
    /\ proc.boot.variant = "validation" /\ proc.boot.at = "main"
    /\ \E fault \in DbFaults, imsFirst \in BOOLEAN :
        /\ db' = seedDatabase(db, fault, imsFirst)
        /\ proc' = [proc EXCEPT !.boot.at = "Serve",
                                !.boot.seeded = @ \/ fault = "none"]
    /\ serving' = {"validation"}
    /\ UNCHANGED <<imsi, session, req, resp, sets, reads, log, pfcp>>

\* main of Validation Server.go: seedDatabase, then the server listens; or
\* the process is ended after k entries
BootSeedVs ==
    /\ proc.boot.variant = "vs" /\ proc.boot.at = "main"
    /\ \E k \in 0..Len(SeedEntries), order \in [DOMAIN SeedEntries -> BOOLEAN] :
        /\ db' = seedDatabaseVs(db, 1, k, order)
        /\ IF k = Len(SeedEntries)
           THEN /\ proc' = [proc EXCEPT !.boot.at = "Serve",
                                        !.boot.seeded = TRUE]
                /\ serving' = {"vs"}
           ELSE /\ proc' = [proc EXCEPT !.boot.at = "down"]
                /\ serving' = {}
    /\ UNCHANGED <<imsi, session, req, resp, sets, reads, log, pfcp>>

\* the process is stopped between requests and started again
BootRestart ==
    /\ proc.boot.at \in {"Serve", "down"} /\ proc.boot.starts < MaxBoots
    /\ req = NoReq
    /\ proc' = [proc EXCEPT !.boot.at = "main", !.boot.starts = @ + 1]
    /\ serving' = {}
    /\ UNCHANGED <<imsi, session, db, req, resp, sets, reads, log, pfcp>>

\* the database as the first start finds it: fresh tables, a generated
\* store, or the rows of an earlier seed
InitBoot ==
    /\ imsi = SeedImsi /\ session = SeedSession
    /\ \/ db = EmptyDb
       \/ db = SeedDb
       \/ \E c \in [1..MaxRows -> RowChoices] : db = GenDb(c)
    /\ serving = {}
    /\ Idle
    /\ log = NoLog
    /\ pfcp = NoPfcp
    /\ \E v \in {"validation", "vs"} :
        proc = [Running EXCEPT !.menu = MenuIdle,
                               !.boot = [variant |-> v, at |-> "main",
                                         starts |-> 1, seeded |-> FALSE]]

NextBoot ==
    \/ BootSeed \/ BootSeedVs \/ BootRestart
    \/ DELETE_validate \/ VsDELETE \/ Return

SpecBoot == InitBoot /\ [][NextBoot]_vars

\* a step on which seedDatabase runs
Seeding == proc.boot.at = "main" /\ proc'.boot.at # "main"

\* seedDatabase inserts nothing when the imsi table holds a row
SeedsOnlyEmpty == (Seeding /\ Len(db.imsi) > 0) => db' = db

\* a start-up after a seeding that went through changes no table
ReseedChangesNothing == (Seeding /\ proc.boot.seeded) => db' = db

(* C25: seedDatabase seeds only an empty database: when the imsi table      *)
(* already holds a row it inserts nothing, so that start-ups repeated after *)
(* a successful seed leave the imsi, fseid and pdr tables unchanged.        *)
(* seedDatabase of Validation Server.go does not look at the tables first:  *)
(* it inserts every seed row that is not there yet.                         *)
C25_SeedsOnlyEmptyDatabase == [][SeedsOnlyEmpty /\ ReseedChangesNothing]_vars

----------------------------------------------------------------------------
(* The sample data of the agents, as the stores hold it once the agents     *)
(* serve (SpecSeq: the directory of StartIMSIAgent, the sessions of         *)
(* StartRuleAgent).                                                         *)

\* the session keys the directory holds for subscriber k
KeysOf(k) == {imsi[k].Inter, imsi[k].Ims}

(* C26: the seed data is referentially consistent: every session key the    *)
(* directory holds for IMSI1..IMSI3 is a session of the session store, no   *)
(* session key is referenced by two subscribers or by both classes of one   *)
(* subscriber, and so resolving a seeded subscriber yields a non-empty PDR  *)
(* list for each class.  StartRuleAgent seeds fseid1 and fseid2 only: the   *)
(* keys of IMSI2 and IMSI3 are in no session, and their lists are empty.    *)
C26_SeedReferentiallyConsistent ==
    /\ \A k \in DOMAIN imsi : KeysOf(k) \subseteq DOMAIN session
    /\ \A k \in DOMAIN imsi : imsi[k].Inter # imsi[k].Ims
    /\ \A k, l \in DOMAIN imsi : k # l => KeysOf(k) \cap KeysOf(l) = {}
    /\ (req.handler = "client.POST" /\ req.fault = "none" /\ ~req.malformed
            /\ req.imsi \in DOMAIN imsi)
        => sets.internet # <<>> /\ sets.ims # <<>>

============================================================================
